---- MODULE Spec2Model ----
(***************************************************************************)
(* FileHarbor server: path validator, authenticator, session/lock registry *)
(* and the connection handler's protocol state machine.                    *)
(*                                                                         *)
(* Strings that the code takes apart (paths) are sequences of one-         *)
(* character strings; TEMP_FILE_PREFIX is carried as one opaque element.   *)
(***************************************************************************)
EXTENDS Integers, Sequences, FiniteSets, TLC

\* ------------------------------------------------------------------------
\* Bounds of the model
\* ------------------------------------------------------------------------
MaxPathLen == 5

\* ------------------------------------------------------------------------
\* Program constants (common/constants.py)
\* ------------------------------------------------------------------------
STATUS_SUCCESS == 200
STATUS_BAD_REQUEST == 400
STATUS_UNAUTHORIZED == 401
STATUS_FORBIDDEN == 403
STATUS_NOT_FOUND == 404
STATUS_CONFLICT == 409
STATUS_LOCKED == 423
STATUS_INTERNAL_ERROR == 500
MAX_PATH_LENGTH == 4096
MAX_PATH_DEPTH == 100
FORBIDDEN_PATH_COMPONENTS == {<<".", ".">>, <<".">>}
FORBIDDEN_FILENAME_CHARS == {"NUL", "/", "\\"}
TEMP_FILE_PREFIX == <<".fharbor_tmp_">>

\* ------------------------------------------------------------------------
\* String helpers, as Python and posixpath compute them
\* ------------------------------------------------------------------------
sep == "/"

RECURSIVE lstrip(_)
\* str.lstrip('/')
lstrip(s) == IF s # <<>> /\ Head(s) = sep THEN lstrip(Tail(s)) ELSE s

RECURSIVE SplitFrom(_, _)
\* str.split(os.sep): the components between separators, empty ones kept;
\* cur is the component being read
SplitFrom(s, cur) ==
    IF s = <<>> THEN <<cur>>
    ELSE IF Head(s) = sep THEN <<cur>> \o SplitFrom(Tail(s), <<>>)
    ELSE SplitFrom(Tail(s), Append(cur, Head(s)))

split(s) == SplitFrom(s, <<>>)

RECURSIVE JoinComps(_)
\* '/'.join(comps)
JoinComps(comps) ==
    IF comps = <<>> THEN <<>>
    ELSE IF Len(comps) = 1 THEN comps[1]
    ELSE comps[1] \o <<sep>> \o JoinComps(Tail(comps))

startswith(s, prefix) ==
    /\ Len(prefix) <= Len(s)
    /\ SubSeq(s, 1, Len(prefix)) = prefix

isabs(s) == s # <<>> /\ Head(s) = sep

\* posixpath.normpath: number of leading slashes it keeps (0, 1 or 2)
InitialSlashes(path) ==
    IF ~startswith(path, <<sep>>) THEN 0
    ELSE IF startswith(path, <<sep, sep>>) /\ ~startswith(path, <<sep, sep, sep>>) THEN 2
    ELSE 1

RECURSIVE NormComps(_, _, _)
\* posixpath.normpath: the loop over the components
NormComps(comps, new_comps, initial_slashes) ==
    IF comps = <<>> THEN new_comps
    ELSE LET comp == Head(comps)
             rest == Tail(comps)
         IN IF comp = <<>> \/ comp = <<".">>
            THEN NormComps(rest, new_comps, initial_slashes)
            ELSE IF \/ comp # <<".", ".">>
                    \/ (initial_slashes = 0 /\ new_comps = <<>>)
                    \/ (new_comps # <<>> /\ new_comps[Len(new_comps)] = <<".", ".">>)
            THEN NormComps(rest, Append(new_comps, comp), initial_slashes)
            ELSE IF new_comps # <<>>
            THEN NormComps(rest, SubSeq(new_comps, 1, Len(new_comps) - 1), initial_slashes)
            ELSE NormComps(rest, new_comps, initial_slashes)

normpath(path) ==
    IF path = <<>> THEN <<".">>
    ELSE LET n == InitialSlashes(path)
             body == JoinComps(NormComps(split(path), <<>>, n))
             res == (IF n = 2 THEN <<sep, sep>> ELSE IF n = 1 THEN <<sep>> ELSE <<>>) \o body
         IN IF res = <<>> THEN <<".">> ELSE res

\* posixpath.join(a, b)
pathjoin(a, b) ==
    IF isabs(b) THEN b
    ELSE IF a = <<>> \/ a[Len(a)] = sep THEN a \o b
    ELSE a \o <<sep>> \o b

\* os.path.abspath of a path that is already absolute (library roots are)
abspath(path) == normpath(path)

\* os.path.commonpath([a, b]) raises ValueError when absolute and relative mix
CommonPathRaises(a, b) == isabs(a) # isabs(b)

\* ------------------------------------------------------------------------
\* validate_path (common/validators.py)
\* ------------------------------------------------------------------------
PathError(kind) == [ok |-> FALSE, err |-> kind, path |-> <<>>]
PathOk(p) == [ok |-> TRUE, err |-> "", path |-> p]

HasForbiddenChar(part) == \E i \in 1..Len(part) : part[i] \in FORBIDDEN_FILENAME_CHARS

RECURSIVE CheckPartsNoDots(_)
\* mutant of CheckParts: the forbidden-component test is left out
CheckPartsNoDots(parts) ==
    IF parts = <<>> THEN ""
    ELSE IF HasForbiddenChar(Head(parts)) THEN "InvalidPathError"
    ELSE CheckPartsNoDots(Tail(parts))

RECURSIVE CheckParts(_)
\* the loop over path_parts: the first offending component decides the error
CheckParts(parts) ==
    IF parts = <<>> THEN ""
    ELSE IF Head(parts) \in FORBIDDEN_PATH_COMPONENTS THEN "PathTraversalError"
    ELSE IF HasForbiddenChar(Head(parts)) THEN "InvalidPathError"
    ELSE CheckParts(Tail(parts))

validate_path(filepath, base_path) ==
    LET base == abspath(normpath(base_path))
        fp == normpath(lstrip(filepath))
        path_parts == split(fp)
        bad == CheckParts(path_parts)
        full_path == abspath(pathjoin(base, fp))
    IN IF bad # "" THEN PathError(bad)
       ELSE IF Len(path_parts) > MAX_PATH_DEPTH THEN PathError("InvalidPathError")
       ELSE IF CommonPathRaises(base, full_path) THEN PathError("PathTraversalError")
       ELSE IF ~startswith(full_path, base) THEN PathError("PathTraversalError")
       ELSE IF Len(full_path) > MAX_PATH_LENGTH THEN PathError("InvalidPathError")
       ELSE PathOk(full_path)

\* ------------------------------------------------------------------------
\* Bounds of the server model
\* ------------------------------------------------------------------------
\* connection handlers that exist at the same time
MaxConns == 2
\* session ids in use at the same time
MaxSessions == 2
\* longest file content, in bytes
MaxFileLen == 2
\* largest file_size, and end of the chunks, of the free-form requests of SpecXfer
MaxRequestLen == 1
\* cap on TransferState.bytes_transferred
MaxTransferred == 2
\* rounds of the reaper's loop that one step of the clock stands for
ScansPerStep == 3

\* ------------------------------------------------------------------------
\* Program constants of the registry and the protocol
\* ------------------------------------------------------------------------
DEFAULT_IDLE_TIMEOUT == 300
SESSION_CLEANUP_INTERVAL == 60
CMD_HANDSHAKE == "HANDSHAKE"
CMD_PUT_START == "PUT_START"
CMD_PUT_CHUNK == "PUT_CHUNK"
CMD_PUT_COMPLETE == "PUT_COMPLETE"
CMD_GET_START == "GET_START"
CMD_GET_CHUNK == "GET_CHUNK"
CMD_DELETE == "DELETE"
CMD_MANIFEST == "MANIFEST"
CMD_PING == "PING"
CMD_DISCONNECT == "DISCONNECT"
CMD_UNKNOWN == "BOGUS"

\* ------------------------------------------------------------------------
\* Server configuration (ServerConfig): client table, CRL, library table
\* ------------------------------------------------------------------------
None == "none"
NoSession == 0

\* certificates a peer can present over TLS: all are signed by the CA
CertA == [uid |-> "cA", fingerprint |-> "fpA", serial |-> 1]
CertB == [uid |-> "cB", fingerprint |-> "fpB", serial |-> 2]
\* its client record is flagged revoked
CertFlagged == [uid |-> "cC", fingerprint |-> "fpC", serial |-> 3]
\* its serial is in the CRL
CertInCRL == [uid |-> "cD", fingerprint |-> "fpD", serial |-> 4]
\* its UID is not in the client table
CertUnknown == [uid |-> "cX", fingerprint |-> "fpX", serial |-> 5]
\* issued for cA, but not the certificate stored in cA's record
CertReissued == [uid |-> "cA", fingerprint |-> "fpA2", serial |-> 6]

Certs == {CertA, CertB, CertFlagged, CertInCRL, CertUnknown, CertReissued}

\* config.clients: client_id -> ClientRecord
ConfigClients ==
    [cid \in {"cA", "cB", "cC", "cD"} |->
        [fingerprint |-> CASE cid = "cA" -> "fpA" [] cid = "cB" -> "fpB"
                           [] cid = "cC" -> "fpC" [] OTHER -> "fpD",
         revoked |-> (cid = "cC")]]

\* config.security.crl
ConfigCRL == {4}

L1 == "L1"
L2 == "L2"
RootL1 == <<"/", "p">>
RootL2 == <<"/", "q">>

\* config.libraries: library_id -> LibraryConfig; L1 keeps the default
\* idle_timeout, L2 is configured with twice as much
ConfigLibraries ==
    [lib \in {L1, L2} |->
        [path |-> IF lib = L1 THEN RootL1 ELSE RootL2,
         authorized_clients |-> IF lib = L1 THEN {"cA", "cB", "cC", "cD", "cX"} ELSE {"cA"},
         idle_timeout |-> IF lib = L1 THEN DEFAULT_IDLE_TIMEOUT ELSE 2 * DEFAULT_IDLE_TIMEOUT]]

\* library ids a HANDSHAKE may name; "L9" is not configured
HandshakeLibraries == {L1, L2, "L9"}

\* ------------------------------------------------------------------------
\* Finite maps (Python dicts)
\* ------------------------------------------------------------------------
EmptyMap == [x \in {} |-> 0]
Put(f, k, v) == [x \in DOMAIN f \cup {k} |-> IF x = k THEN v ELSE f[x]]
Remove(f, k) == [x \in DOMAIN f \ {k} |-> f[x]]
RemoveAll(f, ks) == [x \in DOMAIN f \ ks |-> f[x]]

\* ------------------------------------------------------------------------
\* Authenticator (server/auth.py)
\* ------------------------------------------------------------------------
AuthOk(cid) == [ok |-> TRUE, err |-> "", client_id |-> cid]
AuthError(kind) == [ok |-> FALSE, err |-> kind, client_id |-> None]

\* _is_revoked
is_revoked(cert) == cert.serial \in ConfigCRL

\* variant of validate_client_certificate: the record's revoked flag is not read
validate_client_certificate_NoFlag(cert) ==
    IF is_revoked(cert) THEN AuthError("CertificateRevokedError")
    ELSE IF cert.uid \notin DOMAIN ConfigClients THEN AuthError("AuthenticationError")
    ELSE IF cert.fingerprint # ConfigClients[cert.uid].fingerprint THEN AuthError("CertificateError")
    ELSE AuthOk(cert.uid)

validate_client_certificate(cert) ==
    IF is_revoked(cert) THEN AuthError("CertificateRevokedError")
    ELSE IF cert.uid \notin DOMAIN ConfigClients THEN AuthError("AuthenticationError")
    ELSE IF ConfigClients[cert.uid].revoked THEN AuthError("CertificateRevokedError")
    ELSE IF cert.fingerprint # ConfigClients[cert.uid].fingerprint THEN AuthError("CertificateError")
    ELSE AuthOk(cert.uid)

\* check_library_access: "" when access is granted, else the exception raised
check_library_access(client_id, library_id) ==
    IF library_id \notin DOMAIN ConfigLibraries THEN "LibraryAccessDeniedError"
    ELSE IF client_id \notin ConfigLibraries[library_id].authorized_clients
    THEN "LibraryAccessDeniedError"
    ELSE ""

\* ------------------------------------------------------------------------
\* Session/lock registry (server/session_manager.py), on a registry value
\* R = [sessions, library_locks, file_locks]
\* ------------------------------------------------------------------------
\* ClientSession as created; idle is time.time() - last_activity in seconds
NewSession(client_id, library_id) ==
    [client_id |-> client_id, library_id |-> library_id, idle |-> 0,
     active_transfers |-> EmptyMap, locked_files |-> {}]

\* create_session raises ValueError
LibraryInUse(R, client_id, library_id) ==
    /\ library_id \in DOMAIN R.library_locks
    /\ R.library_locks[library_id] # client_id

create_session(R, session_id, client_id, library_id) ==
    [R EXCEPT !.sessions = Put(@, session_id, NewSession(client_id, library_id)),
              !.library_locks = Put(@, library_id, client_id)]

\* an update_session_activity that builds the ClientSession anew
update_session_activity_Recreate(R, session_id) ==
    IF session_id \in DOMAIN R.sessions
    THEN [R EXCEPT !.sessions[session_id] = NewSession(@.client_id, @.library_id)]
    ELSE R

\* update_session_activity
update_session_activity(R, session_id) ==
    IF session_id \in DOMAIN R.sessions
    THEN [R EXCEPT !.sessions[session_id].idle = 0]
    ELSE R

\* unlock_file
unlock_file(R, session_id, filepath) ==
    LET fl == IF filepath \in DOMAIN R.file_locks /\ R.file_locks[filepath] = session_id
              THEN Remove(R.file_locks, filepath)
              ELSE R.file_locks
        ss == IF session_id \in DOMAIN R.sessions
              THEN [R.sessions EXCEPT ![session_id].locked_files = @ \ {filepath}]
              ELSE R.sessions
    IN [R EXCEPT !.file_locks = fl, !.sessions = ss]

\* variant of UnlockEach: no file lock is released
UnlockEach_Skip(R, session_id, files) == R

RECURSIVE UnlockEach(_, _, _)
\* the loop of close_session over list(session.locked_files)
UnlockEach(R, session_id, files) ==
    IF files = {} THEN R
    ELSE LET f == CHOOSE x \in files : TRUE
         IN UnlockEach(unlock_file(R, session_id, f), session_id, files \ {f})

\* variant of close_session: the library lock is left in place
close_session_KeepLock(R, session_id) ==
    IF session_id \notin DOMAIN R.sessions THEN R
    ELSE LET session == R.sessions[session_id]
             R1 == UnlockEach(R, session_id, session.locked_files)
         IN [R1 EXCEPT !.sessions = Remove(@, session_id)]

\* close_session
close_session(R, session_id) ==
    IF session_id \notin DOMAIN R.sessions THEN R
    ELSE LET session == R.sessions[session_id]
             ll == IF /\ session.library_id \in DOMAIN R.library_locks
                      /\ R.library_locks[session.library_id] = session.client_id
                   THEN Remove(R.library_locks, session.library_id)
                   ELSE R.library_locks
             R1 == UnlockEach([R EXCEPT !.library_locks = ll], session_id, session.locked_files)
         IN [R1 EXCEPT !.sessions = Remove(@, session_id)]

\* is_file_locked
is_file_locked(R, filepath) == filepath \in DOMAIN R.file_locks

\* lock_file: the registry afterwards (the handler drops the returned flag)
lock_file(R, session_id, filepath) ==
    IF filepath \in DOMAIN R.file_locks THEN R
    ELSE LET ss == IF session_id \in DOMAIN R.sessions
                   THEN [R.sessions EXCEPT ![session_id].locked_files = @ \cup {filepath}]
                   ELSE R.sessions
         IN [R EXCEPT !.file_locks = Put(@, filepath, session_id), !.sessions = ss]

\* start_transfer, for a session in the table
start_transfer(R, session_id, filepath, file_size, checksum, resume_offset) ==
    [R EXCEPT !.sessions[session_id].active_transfers =
        Put(@, filepath, [file_size |-> file_size, checksum |-> checksum,
                          bytes_transferred |-> resume_offset])]

\* update_transfer_progress
update_transfer_progress(R, session_id, filepath, bytes_count) ==
    IF /\ session_id \in DOMAIN R.sessions
       /\ filepath \in DOMAIN R.sessions[session_id].active_transfers
    THEN [R EXCEPT !.sessions[session_id].active_transfers[filepath].bytes_transferred = @ + bytes_count,
                   !.sessions[session_id].idle = 0]
    ELSE R

\* variant of complete_transfer: the TransferState is kept
complete_transfer_Skip(R, session_id, filepath) == R

\* complete_transfer
complete_transfer(R, session_id, filepath) ==
    IF /\ session_id \in DOMAIN R.sessions
       /\ filepath \in DOMAIN R.sessions[session_id].active_transfers
    THEN [R EXCEPT !.sessions[session_id].active_transfers = Remove(@, filepath)]
    ELSE R

\* get_transfer_state returns a TransferState
has_transfer_state(R, session_id, filepath) ==
    /\ session_id \in DOMAIN R.sessions
    /\ filepath \in DOMAIN R.sessions[session_id].active_transfers

\* ClientSession.is_idle, after the clock has advanced by dt seconds
is_idle(session, timeout) == session.idle > timeout

RECURSIVE CloseEach(_, _)
\* the loop of cleanup_idle_sessions over idle_sessions
CloseEach(R, ids) ==
    IF ids = {} THEN R
    ELSE LET s == CHOOSE x \in ids : TRUE
         IN CloseEach(close_session(R, s), ids \ {s})

\* cleanup_idle_sessions
cleanup_idle_sessions(R, timeout) ==
    CloseEach(R, {s \in DOMAIN R.sessions : is_idle(R.sessions[s], timeout)})

\* ------------------------------------------------------------------------
\* Filesystem and file-operation backend (server/file_operations.py)
\* fs maps the absolute path of every regular file to its content
\* ------------------------------------------------------------------------
\* longest binary tail of one PUT_CHUNK
MaxChunk == 1

Bytes == {0, 1}

\* directories that exist: the filesystem root and the library roots
Dirs == {<<"/">>, RootL1, RootL2}

\* a file outside every library root
OutsidePath == <<"/", "o">>

\* calculate_file_checksum: SHA-256 is taken to be collision-free
Sha(content) == <<"sha256", content>>

path_exists(files, p) == p \in DOMAIN files \/ p \in Dirs

\* file_path.parent / f"{TEMP_FILE_PREFIX}{file_path.name}"
TempPathOf(filepath) ==
    LET comps == split(filepath)
        n == Len(comps)
    IN JoinComps([comps EXCEPT ![n] = TEMP_FILE_PREFIX \o comps[n]])

\* the path the kernel reaches for a path string (no symlinks)
Resolved(p) == normpath(p)

\* f.seek(offset); f.write(data) on a file opened 'r+b': a gap reads as zeros
WriteAt(content, offset, data) ==
    LET n == IF offset + Len(data) > Len(content) THEN offset + Len(data) ELSE Len(content)
    IN [i \in 1..n |->
          IF i > offset /\ i <= offset + Len(data) THEN data[i - offset]
          ELSE IF i <= Len(content) THEN content[i]
          ELSE 0]

\* start_upload
start_upload(files, filepath, file_size, resume) ==
    LET temp_path == TempPathOf(filepath)
    IN IF resume /\ path_exists(files, temp_path)
       THEN LET size == Len(files[temp_path])
            IN [ok |-> TRUE, err |-> "", files |-> files, temp_path |-> temp_path,
                resume_offset |-> IF size >= file_size THEN 0 ELSE size]
       ELSE IF path_exists(files, filepath) /\ ~resume
       THEN [ok |-> FALSE, err |-> "FileExistsError", files |-> files,
             temp_path |-> temp_path, resume_offset |-> 0]
       ELSE [ok |-> TRUE, err |-> "",
             files |-> IF temp_path \in DOMAIN files THEN files ELSE Put(files, temp_path, <<>>),
             temp_path |-> temp_path, resume_offset |-> 0]

\* write_chunk: open(temp_filepath, 'r+b') needs an existing regular file
write_chunk(files, temp_filepath, offset, data) ==
    LET p == Resolved(temp_filepath)
    IN IF p \notin DOMAIN files
       THEN [ok |-> FALSE, err |-> "OSError", files |-> files, bytes_written |-> 0]
       ELSE [ok |-> TRUE, err |-> "", files |-> [files EXCEPT ![p] = WriteAt(@, offset, data)],
             bytes_written |-> Len(data)]

\* complete_upload: verify the checksum, then safe_rename(temp, final)
complete_upload(files, temp_filepath, final_filepath, expected_checksum) ==
    LET p == Resolved(temp_filepath)
    IN IF p \notin DOMAIN files
       THEN [ok |-> FALSE, err |-> "OSError", files |-> files]
       ELSE IF Sha(files[p]) # expected_checksum
       THEN [ok |-> FALSE, err |-> "ChecksumMismatchError", files |-> files]
       ELSE [ok |-> TRUE, err |-> "",
             files |-> Put(Remove(files, p), final_filepath, files[p])]

\* start_download: size and SHA-256 of the file; the offset is not used
start_download(files, filepath, offset) ==
    IF ~path_exists(files, filepath)
    THEN [ok |-> FALSE, err |-> "FileNotFoundError", file_size |-> 0, checksum |-> <<>>]
    ELSE IF filepath \in Dirs
    THEN [ok |-> FALSE, err |-> "InvalidPathError", file_size |-> 0, checksum |-> <<>>]
    ELSE [ok |-> TRUE, err |-> "", file_size |-> Len(files[filepath]),
          checksum |-> Sha(files[filepath])]

\* a read_chunk that does not seek
read_chunk_FromStart(files, filepath, offset, chunk_size) ==
    IF filepath \notin DOMAIN files
    THEN [ok |-> FALSE, err |-> "OSError", data |-> <<>>]
    ELSE LET size == Len(files[filepath])
             end == IF chunk_size < size THEN chunk_size ELSE size
         IN [ok |-> TRUE, err |-> "", data |-> SubSeq(files[filepath], 1, end)]

\* read_chunk: f.seek(offset); f.read(chunk_size): shorter at the end of the
\* file, empty past it
read_chunk(files, filepath, offset, chunk_size) ==
    IF filepath \notin DOMAIN files
    THEN [ok |-> FALSE, err |-> "OSError", data |-> <<>>]
    ELSE LET size == Len(files[filepath])
             end == IF offset + chunk_size < size THEN offset + chunk_size ELSE size
         IN [ok |-> TRUE, err |-> "", data |-> SubSeq(files[filepath], offset + 1, end)]

\* delete_file
delete_file(files, filepath) ==
    IF ~path_exists(files, filepath)
    THEN [ok |-> FALSE, err |-> "FileNotFoundError", files |-> files]
    ELSE IF filepath \in Dirs
    THEN [ok |-> FALSE, err |-> "InvalidPathError", files |-> files]
    ELSE [ok |-> TRUE, err |-> "", files |-> Remove(files, filepath)]

\* p is dir or lies below it
Below(p, dir) ==
    LET pc == NormComps(split(p), <<>>, 1)
        dc == NormComps(split(dir), <<>>, 1)
    IN Len(dc) <= Len(pc) /\ SubSeq(pc, 1, Len(dc)) = dc

\* get_manifest: library_base_path / dirpath.lstrip('/'), then
\* list_directory(..., recursive=True); listed is what rglob walks
get_manifest(files, library_base_path, dirpath) ==
    LET resolved_path == Resolved(pathjoin(library_base_path, lstrip(dirpath)))
    IN IF ~path_exists(files, resolved_path)
       THEN [ok |-> FALSE, err |-> "FileNotFoundError", at |-> resolved_path, listed |-> {}]
       ELSE IF resolved_path \notin Dirs
       THEN [ok |-> FALSE, err |-> "InvalidPathError", at |-> resolved_path, listed |-> {}]
       ELSE [ok |-> TRUE, err |-> "", at |-> resolved_path,
             listed |-> {f \in DOMAIN files : Below(f, resolved_path)}]

\* LibraryManager.resolve_path
resolve_path(library_id, filepath) ==
    IF library_id \notin DOMAIN ConfigLibraries THEN PathError("LibraryNotFoundError")
    ELSE validate_path(filepath, ConfigLibraries[library_id].path)

\* ------------------------------------------------------------------------
\* State
\* ------------------------------------------------------------------------
VARIABLES
    conns,          \* slot -> ConnectionHandler fields and its position in handle()
    sessions,       \* SessionManager.sessions: session_id -> ClientSession
    library_locks,  \* SessionManager.library_locks: library_id -> client_id
    file_locks,     \* SessionManager.file_locks: file_path -> session_id
    fs,             \* regular files: absolute path -> content
    last,           \* the response sent by the latest step, and what its handler touched
    vp_in,          \* validator on its own: the input
    vp_out,         \* validator on its own: the result
    download,       \* the client inside TransferManager.download_file: its locals
    frame,          \* codec on its own: a message, its bytes, what the receiver decodes
    connection,     \* client Connection object and the call running on it
    ops,            \* operations of the async client running on executor threads
    retry,          \* the client inside upload_with_retry / download_with_retry
    limiter,        \* a RateLimiter, the clock, and the call inside acquire
    stream,         \* one socket: the bytes a client wrote and the handler reading them
    shutdown,       \* FileHarborServer: its flags and threads, and the call inside stop()
    listing         \* a library's directories, and the last LIST / MKDIR / RMDIR answered

regVars == <<sessions, library_locks, file_locks>>
\* components that run on their own
clientVars == <<download, frame, connection, ops, retry, limiter, stream, shutdown, listing>>
\* what no handler of the server writes
pathVars == <<vp_in, vp_out, clientVars>>
serverVars == <<conns, sessions, library_locks, file_locks, fs, last>>
vars == <<conns, sessions, library_locks, file_locks, fs, last, vp_in, vp_out, clientVars>>

Conns == 1..MaxConns

NoCert == [uid |-> None, fingerprint |-> None, serial |-> 0]
NoPending == [abs_path |-> <<>>, file_size |-> 0, checksum |-> <<>>, resume |-> FALSE]

\* ConnectionHandler.__init__; pc "free" is a slot with no connection
FreshHandler ==
    [pc |-> "free", cert |-> NoCert, authenticated |-> FALSE, client_id |-> None,
     library_id |-> None, session_id |-> NoSession, file_handler |-> <<>>,
     pending |-> NoPending]

\* content of a response besides its status, and the binary tail after it
NoData == [file_size |-> 0, checksum |-> <<>>, chunk |-> <<>>]

NoResponse ==
    [n |-> 0, conn |-> 0, cmd |-> None, status |-> 0, err |-> "", touched |-> {},
     data |-> NoData]

\* components that a specification does not run
NoFrame == [stage |-> "none"]
NoConnection == [pc |-> "none"]
NoOps == <<>>
NoRetry == [pc |-> "none"]
NoLimiter == [pc |-> "none"]
NoStream == [pc |-> "none"]
NoShutdown == [pc |-> "none"]
NoListing == [pc |-> "none"]

OthersIdle(own) ==
    /\ "download" \in own \/ download = [pc |-> "idle", remote_path |-> <<>>, resume_offset |-> 0,
                                          file_size |-> 0, checksum |-> <<>>, outcome |-> "none"]
    /\ "frame" \in own \/ frame = NoFrame
    /\ "connection" \in own \/ connection = NoConnection
    /\ "ops" \in own \/ ops = NoOps
    /\ "retry" \in own \/ retry = NoRetry
    /\ "limiter" \in own \/ limiter = NoLimiter
    /\ "stream" \in own \/ stream = NoStream
    /\ "shutdown" \in own \/ shutdown = NoShutdown
    /\ "listing" \in own \/ listing = NoListing

\* download_file is not running
NoDownload ==
    [pc |-> "idle", remote_path |-> <<>>, resume_offset |-> 0, file_size |-> 0,
     checksum |-> <<>>, outcome |-> "none"]

NoInput == [filepath |-> <<>>, base_path |-> <<>>]
NotRun == [ok |-> FALSE, err |-> "not run", path |-> <<>>]

Reg == [sessions |-> sessions, library_locks |-> library_locks, file_locks |-> file_locks]

SetReg(R) ==
    /\ sessions' = R.sessions
    /\ library_locks' = R.library_locks
    /\ file_locks' = R.file_locks

\* _send_message / _send_error: the response goes out; touched is the set of
\* filesystem paths the handler accessed on the way
RespondWith(c, cmd, status, err, touched, data) ==
    last' = [n |-> 1 - last.n, conn |-> c, cmd |-> cmd, status |-> status, err |-> err,
             touched |-> touched, data |-> data]

Respond(c, cmd, status, err, touched) == RespondWith(c, cmd, status, err, touched, NoData)

\* handle(): "if self.session_id: update_session_activity(self.session_id)"
Received(c) ==
    IF conns[c].session_id # NoSession
    THEN update_session_activity(Reg, conns[c].session_id)
    ELSE Reg

\* _process_message: "Handshake must be first"
NeedsAuth(h, command) == ~h.authenticated /\ command # CMD_HANDSHAKE

Unauthorized(c, command) ==
    /\ Respond(c, command, STATUS_UNAUTHORIZED, "Authentication required", {})
    /\ SetReg(Received(c))
    /\ UNCHANGED <<conns, fs, pathVars>>

\* every handler's "except Exception" branch
Failed(c, command, status, err, R, touched) ==
    /\ Respond(c, command, status, err, touched)
    /\ SetReg(R)
    /\ UNCHANGED <<conns, fs, pathVars>>

Init ==
    /\ conns = [c \in Conns |-> FreshHandler]
    /\ sessions = EmptyMap
    /\ library_locks = EmptyMap
    /\ file_locks = EmptyMap
    /\ fs = [p \in {OutsidePath} |-> <<0>>]
    /\ last = NoResponse
    /\ vp_in = NoInput
    /\ vp_out = NotRun
    /\ OthersIdle({})

\* ------------------------------------------------------------------------
\* Connection lifecycle (server/server.py, ConnectionHandler.handle)
\* ------------------------------------------------------------------------
\* the acceptor wraps a socket whose TLS handshake presented cert
AcceptConnection(c, cert) ==
    /\ conns[c].pc = "free"
    /\ conns' = [conns EXCEPT ![c] = [FreshHandler EXCEPT !.pc = "recv", !.cert = cert]]
    /\ last' = NoResponse
    /\ UNCHANGED <<regVars, fs, pathVars>>

\* _cleanup: close the handler's session, then the socket
cleanup(R, h) == IF h.session_id # NoSession THEN close_session(R, h.session_id) ELSE R

\* the loop has ended with running = False: finally: self._cleanup()
Cleanup(c) ==
    /\ conns[c].pc = "closing"
    /\ SetReg(cleanup(Reg, conns[c]))
    /\ conns' = [conns EXCEPT ![c] = FreshHandler]
    /\ last' = NoResponse
    /\ UNCHANGED <<fs, pathVars>>

\* the peer is gone: recv_all fails, no answer can be sent, and the loop is
\* left through "finally: self._cleanup()"
ConnectionLost(c) ==
    /\ conns[c].pc = "recv"
    /\ SetReg(cleanup(Reg, conns[c]))
    /\ conns' = [conns EXCEPT ![c] = FreshHandler]
    /\ last' = NoResponse
    /\ UNCHANGED <<fs, pathVars>>

\* _cleanup_loop: sleep SESSION_CLEANUP_INTERVAL seconds, then
\* cleanup_idle_sessions() with its default timeout. One step is ScansPerStep
\* rounds of the loop: activity is timed on that grid.
ReaperScan ==
    /\ DOMAIN sessions # {}
    /\ LET aged == [Reg EXCEPT !.sessions =
                       [s \in DOMAIN sessions |->
                           [sessions[s] EXCEPT !.idle = @ + ScansPerStep * SESSION_CLEANUP_INTERVAL]]]
       IN SetReg(cleanup_idle_sessions(aged, DEFAULT_IDLE_TIMEOUT))
    /\ last' = NoResponse
    /\ UNCHANGED <<conns, fs, pathVars>>

\* ------------------------------------------------------------------------
\* HANDSHAKE (ConnectionHandler._handle_handshake)
\* ------------------------------------------------------------------------
HandshakeStatus(err) ==
    IF err \in {"AuthenticationError", "LibraryAccessDeniedError"}
    THEN STATUS_UNAUTHORIZED
    ELSE STATUS_INTERNAL_ERROR

HsFail(R, h, err) ==
    [R |-> R, h |-> [h EXCEPT !.pc = "closing"], status |-> HandshakeStatus(err), err |-> err]

\* mutant of handshake: the session is created before the access check
handshake_SessionFirst(R, h, library_id, session_id) ==
    LET v == validate_client_certificate(h.cert)
    IN IF ~v.ok THEN HsFail(R, h, v.err)
       ELSE LET h1 == [h EXCEPT !.client_id = v.client_id, !.library_id = library_id,
                                !.session_id = session_id]
                R1 == IF LibraryInUse(R, v.client_id, library_id) THEN R
                      ELSE create_session(R, session_id, v.client_id, library_id)
                denied == check_library_access(v.client_id, library_id)
            IN IF denied # "" THEN HsFail(R1, h1, denied)
               ELSE IF LibraryInUse(R, v.client_id, library_id) THEN HsFail(R, h1, "ValueError")
               ELSE [R |-> R1,
                     h |-> [h1 EXCEPT !.authenticated = TRUE,
                                      !.file_handler = ConfigLibraries[library_id].path],
                     status |-> STATUS_SUCCESS, err |-> ""]

\* the handler's fields, the registry and the response after _handle_handshake
\* on registry R, with session_id the token secrets.token_hex would return
handshake(R, h, library_id, session_id) ==
    LET v == validate_client_certificate(h.cert)
    IN IF ~v.ok THEN HsFail(R, h, v.err)
       ELSE LET h1 == [h EXCEPT !.client_id = v.client_id, !.library_id = library_id]
                denied == check_library_access(v.client_id, library_id)
            IN IF denied # "" THEN HsFail(R, h1, denied)
               ELSE LET h2 == [h1 EXCEPT !.session_id = session_id]
                    IN IF LibraryInUse(R, v.client_id, library_id)
                       THEN HsFail(R, h2, "ValueError")
                       ELSE [R |-> create_session(R, session_id, v.client_id, library_id),
                             h |-> [h2 EXCEPT !.authenticated = TRUE,
                                              !.file_handler = ConfigLibraries[library_id].path],
                             status |-> STATUS_SUCCESS, err |-> ""]

\* session ids that the registry or a handler still holds
UsedSids ==
    DOMAIN sessions \cup {conns[c].session_id : c \in Conns}
        \cup {file_locks[p] : p \in DOMAIN file_locks}

\* secrets.token_hex(16): an id that nothing holds; which one does not matter
FreshSids == (1..MaxSessions) \ UsedSids
FreshSid == CHOOSE s \in FreshSids : \A t \in FreshSids : s <= t

HandleHandshake(c, library_id) ==
    /\ conns[c].pc = "recv"
    /\ FreshSids # {}
    /\ LET r == handshake(Received(c), conns[c], library_id, FreshSid)
       IN /\ conns' = [conns EXCEPT ![c] = r.h]
          /\ SetReg(r.R)
          /\ Respond(c, CMD_HANDSHAKE, r.status, r.err, {})
    /\ UNCHANGED <<fs, pathVars>>

\* ------------------------------------------------------------------------
\* PING, DISCONNECT, unknown commands
\* ------------------------------------------------------------------------
HandlePing(c) ==
    /\ conns[c].pc = "recv"
    /\ IF NeedsAuth(conns[c], CMD_PING) THEN Unauthorized(c, CMD_PING)
       ELSE /\ Respond(c, CMD_PING, STATUS_SUCCESS, "", {})
            /\ SetReg(Received(c))
            /\ UNCHANGED <<conns, fs, pathVars>>

HandleDisconnect(c) ==
    /\ conns[c].pc = "recv"
    /\ IF NeedsAuth(conns[c], CMD_DISCONNECT) THEN Unauthorized(c, CMD_DISCONNECT)
       ELSE /\ Respond(c, CMD_DISCONNECT, STATUS_SUCCESS, "", {})
            /\ SetReg(Received(c))
            /\ conns' = [conns EXCEPT ![c].pc = "closing"]
            /\ UNCHANGED <<fs, pathVars>>

HandleUnknown(c) ==
    /\ conns[c].pc = "recv"
    /\ IF NeedsAuth(conns[c], CMD_UNKNOWN) THEN Unauthorized(c, CMD_UNKNOWN)
       ELSE Failed(c, CMD_UNKNOWN, STATUS_BAD_REQUEST, "Unknown command", Received(c), {})

\* ------------------------------------------------------------------------
\* Request fields a client may send
\* ------------------------------------------------------------------------
FileA == <<"a">>
\* "../o"
EscapingPath == <<".", ".", "/", "o">>
ClientPaths == {FileA, EscapingPath}
\* dirpath values for MANIFEST: "/" (the default) and ".."
ManifestPaths == {<<"/">>, <<".", ".">>}
\* temp_filepath values: the temp files the server names for FileA, and
\* a file outside every library
TempInputs ==
    {TempPathOf(pathjoin(RootL1, FileA)), TempPathOf(pathjoin(RootL2, FileA)), OutsidePath}
Checksums == {Sha(<<0>>), Sha(<<1>>)}

RECURSIVE ChunksUpTo(_)
ChunksUpTo(n) ==
    IF n = 0 THEN {<<>>}
    ELSE LET shorter == ChunksUpTo(n - 1)
         IN shorter \cup {Append(s, b) : s \in {t \in shorter : Len(t) = n - 1}, b \in Bytes}

ChunkData == ChunksUpTo(MaxChunk) \ {<<>>}

\* a PUT_START with one "except" branch only
PutStartStatus_Generic(err) == STATUS_INTERNAL_ERROR

\* status of the "except" branch that catches the error of a path resolution
\* in _handle_put_start
PutStartStatus(err) ==
    IF err = "PathTraversalError" THEN STATUS_BAD_REQUEST ELSE STATUS_INTERNAL_ERROR

\* ------------------------------------------------------------------------
\* PUT_START (ConnectionHandler._handle_put_start). is_file_locked and
\* lock_file are two critical sections of the registry: other handlers run
\* between them.
\* ------------------------------------------------------------------------
HandlePutStart(c, filepath, file_size, checksum, resume) ==
    /\ conns[c].pc = "recv"
    /\ IF NeedsAuth(conns[c], CMD_PUT_START) THEN Unauthorized(c, CMD_PUT_START)
       ELSE LET h == conns[c]
                R0 == Received(c)
                abs == resolve_path(h.library_id, filepath)
            IN IF ~abs.ok
               THEN Failed(c, CMD_PUT_START, PutStartStatus(abs.err), abs.err, R0, {})
               ELSE IF is_file_locked(R0, abs.path)
               THEN Failed(c, CMD_PUT_START, STATUS_LOCKED, "File is locked", R0, {})
               ELSE /\ conns' = [conns EXCEPT ![c].pc = "put_start",
                                              ![c].pending =
                                                  [abs_path |-> abs.path, file_size |-> file_size,
                                                   checksum |-> checksum, resume |-> resume]]
                    /\ SetReg(R0)
                    /\ last' = NoResponse
                    /\ UNCHANGED <<fs, pathVars>>

\* the rest of _handle_put_start: lock_file, start_upload, start_transfer
PutStartLocked(c) ==
    /\ conns[c].pc = "put_start"
    /\ LET h == conns[c]
           req == h.pending
           R1 == lock_file(Reg, h.session_id, req.abs_path)
           up == start_upload(fs, req.abs_path, req.file_size, req.resume)
           touched == {req.abs_path, up.temp_path}
       IN /\ conns' = [conns EXCEPT ![c].pc = "recv", ![c].pending = NoPending]
          /\ IF ~up.ok
             THEN /\ Respond(c, CMD_PUT_START, STATUS_INTERNAL_ERROR, up.err, touched)
                  /\ SetReg(R1)
                  /\ fs' = fs
             ELSE IF h.session_id \notin DOMAIN R1.sessions
             THEN /\ Respond(c, CMD_PUT_START, STATUS_INTERNAL_ERROR, "ValueError", touched)
                  /\ SetReg(R1)
                  /\ fs' = up.files
             ELSE /\ Respond(c, CMD_PUT_START, STATUS_SUCCESS, "", touched)
                  /\ SetReg(start_transfer(R1, h.session_id, req.abs_path, req.file_size,
                                           req.checksum, up.resume_offset))
                  /\ fs' = up.files
    /\ UNCHANGED pathVars

\* ------------------------------------------------------------------------
\* PUT_CHUNK (ConnectionHandler._handle_put_chunk)
\* ------------------------------------------------------------------------
HandlePutChunk(c, filepath, temp_filepath, offset, data) ==
    /\ conns[c].pc = "recv"
    /\ IF NeedsAuth(conns[c], CMD_PUT_CHUNK) THEN Unauthorized(c, CMD_PUT_CHUNK)
       ELSE LET h == conns[c]
                R0 == Received(c)
                abs == resolve_path(h.library_id, filepath)
            IN IF ~abs.ok
               THEN Failed(c, CMD_PUT_CHUNK, STATUS_INTERNAL_ERROR, abs.err, R0, {})
               ELSE IF ~has_transfer_state(R0, h.session_id, abs.path)
               THEN Failed(c, CMD_PUT_CHUNK, STATUS_BAD_REQUEST, "No active transfer", R0, {})
               ELSE LET w == write_chunk(fs, temp_filepath, offset, data)
                        temp == Resolved(temp_filepath)
                    IN IF ~w.ok
                       THEN Failed(c, CMD_PUT_CHUNK, STATUS_INTERNAL_ERROR, w.err, R0, {temp})
                       ELSE /\ R0.sessions[h.session_id].active_transfers[abs.path].bytes_transferred
                                  + w.bytes_written <= MaxTransferred
                            /\ offset + Len(data) <= MaxFileLen
                            /\ Respond(c, CMD_PUT_CHUNK, STATUS_SUCCESS, "", {temp})
                            /\ SetReg(update_transfer_progress(R0, h.session_id, abs.path,
                                                               w.bytes_written))
                            /\ fs' = w.files
                            /\ UNCHANGED <<conns, pathVars>>

\* ------------------------------------------------------------------------
\* PUT_COMPLETE (ConnectionHandler._handle_put_complete)
\* ------------------------------------------------------------------------
HandlePutComplete(c, filepath, temp_filepath, checksum) ==
    /\ conns[c].pc = "recv"
    /\ IF NeedsAuth(conns[c], CMD_PUT_COMPLETE) THEN Unauthorized(c, CMD_PUT_COMPLETE)
       ELSE LET h == conns[c]
                R0 == Received(c)
                abs == resolve_path(h.library_id, filepath)
            IN IF ~abs.ok
               THEN Failed(c, CMD_PUT_COMPLETE, STATUS_INTERNAL_ERROR, abs.err, R0, {})
               ELSE LET done == complete_upload(fs, temp_filepath, abs.path, checksum)
                        temp == Resolved(temp_filepath)
                    IN IF ~done.ok
                       THEN Failed(c, CMD_PUT_COMPLETE, STATUS_INTERNAL_ERROR, done.err, R0,
                                   {temp})
                       ELSE /\ Respond(c, CMD_PUT_COMPLETE, STATUS_SUCCESS, "", {temp, abs.path})
                            /\ SetReg(unlock_file(complete_transfer(R0, h.session_id, abs.path),
                                                  h.session_id, abs.path))
                            /\ fs' = done.files
                            /\ UNCHANGED <<conns, pathVars>>

\* ------------------------------------------------------------------------
\* GET_START (ConnectionHandler._handle_get_start)
\* ------------------------------------------------------------------------
HandleGetStart(c, filepath, offset) ==
    /\ conns[c].pc = "recv"
    /\ IF NeedsAuth(conns[c], CMD_GET_START) THEN Unauthorized(c, CMD_GET_START)
       ELSE LET h == conns[c]
                R0 == Received(c)
                abs == resolve_path(h.library_id, filepath)
            IN IF ~abs.ok
               THEN Failed(c, CMD_GET_START, STATUS_INTERNAL_ERROR, abs.err, R0, {})
               ELSE LET d == start_download(fs, abs.path, offset)
                    IN IF ~d.ok
                       THEN Failed(c, CMD_GET_START, STATUS_INTERNAL_ERROR, d.err, R0, {abs.path})
                       ELSE /\ RespondWith(c, CMD_GET_START, STATUS_SUCCESS, "", {abs.path},
                                           [file_size |-> d.file_size, checksum |-> d.checksum,
                                            chunk |-> <<>>])
                            /\ SetReg(R0)
                            /\ UNCHANGED <<conns, fs, pathVars>>

\* ------------------------------------------------------------------------
\* GET_CHUNK (ConnectionHandler._handle_get_chunk)
\* ------------------------------------------------------------------------
HandleGetChunk(c, filepath, offset, chunk_size) ==
    /\ conns[c].pc = "recv"
    /\ IF NeedsAuth(conns[c], CMD_GET_CHUNK) THEN Unauthorized(c, CMD_GET_CHUNK)
       ELSE LET h == conns[c]
                R0 == Received(c)
                abs == resolve_path(h.library_id, filepath)
            IN IF ~abs.ok
               THEN Failed(c, CMD_GET_CHUNK, STATUS_INTERNAL_ERROR, abs.err, R0, {})
               ELSE LET r == read_chunk(fs, abs.path, offset, chunk_size)
                    IN IF ~r.ok
                       THEN Failed(c, CMD_GET_CHUNK, STATUS_INTERNAL_ERROR, r.err, R0, {abs.path})
                       ELSE /\ RespondWith(c, CMD_GET_CHUNK, STATUS_SUCCESS, "", {abs.path},
                                           [file_size |-> 0, checksum |-> <<>>, chunk |-> r.data])
                            /\ SetReg(R0)
                            /\ UNCHANGED <<conns, fs, pathVars>>

\* ------------------------------------------------------------------------
\* DELETE (ConnectionHandler._handle_delete)
\* ------------------------------------------------------------------------
HandleDelete(c, filepath) ==
    /\ conns[c].pc = "recv"
    /\ IF NeedsAuth(conns[c], CMD_DELETE) THEN Unauthorized(c, CMD_DELETE)
       ELSE LET h == conns[c]
                R0 == Received(c)
                abs == resolve_path(h.library_id, filepath)
            IN IF ~abs.ok
               THEN Failed(c, CMD_DELETE, STATUS_INTERNAL_ERROR, abs.err, R0, {})
               ELSE LET d == delete_file(fs, abs.path)
                    IN IF ~d.ok
                       THEN Failed(c, CMD_DELETE, STATUS_INTERNAL_ERROR, d.err, R0, {abs.path})
                       ELSE /\ Respond(c, CMD_DELETE, STATUS_SUCCESS, "", {abs.path})
                            /\ SetReg(R0)
                            /\ fs' = d.files
                            /\ UNCHANGED <<conns, pathVars>>

\* ------------------------------------------------------------------------
\* MANIFEST (ConnectionHandler._handle_manifest): dirpath goes to
\* get_manifest as the client sent it
\* ------------------------------------------------------------------------
HandleManifest(c, dirpath) ==
    /\ conns[c].pc = "recv"
    /\ IF NeedsAuth(conns[c], CMD_MANIFEST) THEN Unauthorized(c, CMD_MANIFEST)
       ELSE LET h == conns[c]
                R0 == Received(c)
            IN IF h.file_handler = <<>>
               THEN Failed(c, CMD_MANIFEST, STATUS_INTERNAL_ERROR, "AttributeError", R0, {})
               ELSE LET m == get_manifest(fs, h.file_handler, dirpath)
                        status == IF m.ok THEN STATUS_SUCCESS ELSE STATUS_INTERNAL_ERROR
                    IN /\ Respond(c, CMD_MANIFEST, status, m.err, {m.at} \cup m.listed)
                       /\ SetReg(R0)
                       /\ UNCHANGED <<conns, fs, pathVars>>

\* ------------------------------------------------------------------------
\* Specifications of the server
\* ------------------------------------------------------------------------
TempA1 == TempPathOf(pathjoin(RootL1, FileA))
TempA2 == TempPathOf(pathjoin(RootL2, FileA))

\* Registry under concurrency: two connections of the clients cA and cB,
\* uploads of an empty file FileA that start and complete
Next ==
    \/ \E c \in Conns, cert \in {CertA, CertB} : AcceptConnection(c, cert)
    \/ \E c \in Conns : Cleanup(c)
    \/ \E c \in Conns : ConnectionLost(c)
    \/ ReaperScan
    \/ \E c \in Conns : HandleHandshake(c, L1)
    \/ \E c \in Conns : HandleDisconnect(c)
    \/ \E c \in Conns : HandlePutStart(c, FileA, 0, Sha(<<>>), FALSE)
    \/ \E c \in Conns : PutStartLocked(c)
    \/ \E c \in Conns : HandlePutComplete(c, FileA, TempA1, Sha(<<>>))

Spec == Init /\ [][Next]_vars

\* Authentication: one connection at a time, every kind of certificate and
\* library id, every command
NextAuth ==
    \/ \E cert \in Certs : AcceptConnection(1, cert)
    \/ Cleanup(1)
    \/ ConnectionLost(1)
    \/ ReaperScan
    \/ \E lib \in HandshakeLibraries : HandleHandshake(1, lib)
    \/ HandlePing(1)
    \/ HandleDisconnect(1)
    \/ HandleUnknown(1)
    \/ ~conns[1].authenticated /\ \E p \in ClientPaths : HandlePutStart(1, p, 1, Sha(<<0>>), FALSE)
    \/ ~conns[1].authenticated /\ \E p \in ClientPaths, t \in TempInputs : HandlePutChunk(1, p, t, 0, <<0>>)
    \/ ~conns[1].authenticated /\ \E p \in ClientPaths, t \in TempInputs : HandlePutComplete(1, p, t, Sha(<<0>>))
    \/ ~conns[1].authenticated /\ \E p \in ClientPaths : HandleDelete(1, p)
    \/ ~conns[1].authenticated /\ \E d \in ManifestPaths : HandleManifest(1, d)

SpecAuth == Init /\ [][NextAuth]_vars

\* Transfers: one connection of cA on L1, uploads with every request field
NextXfer ==
    \/ AcceptConnection(1, CertA)
    \/ Cleanup(1)
    \/ ConnectionLost(1)
    \/ ~conns[1].authenticated /\ HandleHandshake(1, L1)
    \/ HandleDisconnect(1)
    \/ \E p \in ClientPaths, size \in 1..MaxRequestLen, sum \in Checksums, resume \in BOOLEAN :
          HandlePutStart(1, p, size, sum, resume)
    \/ PutStartLocked(1)
    \/ \E p \in ClientPaths, t \in {TempA1, OutsidePath}, off \in 0..(MaxRequestLen - 1), data \in ChunkData :
          HandlePutChunk(1, p, t, off, data)
    \/ \E p \in ClientPaths, t \in {TempA1, OutsidePath}, sum \in Checksums : HandlePutComplete(1, p, t, sum)
    \/ \E p \in ClientPaths : HandleDelete(1, p)
    \/ \E d \in ManifestPaths : HandleManifest(1, d)
    \/ HandlePing(1)

SpecXfer == Init /\ [][NextXfer]_vars

\* ------------------------------------------------------------------------
\* Properties of the registry (Spec)
\* ------------------------------------------------------------------------
\* the step sent a response on connection c
Responded(c) == last' # last /\ last'.conn = c

\* C1: all sessions in the table that are attached to one library belong to
\* the same client_id
C1_OneClientPerLibrary ==
    \A s, t \in DOMAIN sessions :
        sessions[s].library_id = sessions[t].library_id
            => sessions[s].client_id = sessions[t].client_id

\* C2: for each absolute path at most one session has an active
\* TransferState
C2_OneTransferPerPath ==
    \A s, t \in DOMAIN sessions :
        s # t => DOMAIN sessions[s].active_transfers \cap DOMAIN sessions[t].active_transfers = {}

\* C7: at most one session in the table is attached to a given library
C7_OneSessionPerLibrary ==
    \A s, t \in DOMAIN sessions : sessions[s].library_id = sessions[t].library_id => s = t

\* ------------------------------------------------------------------------
\* Properties of authentication (SpecAuth)
\* ------------------------------------------------------------------------
\* the four checks of HANDSHAKE on a certificate and a library id
ClientKnown(cert) == cert.uid \in DOMAIN ConfigClients
FingerprintMatches(cert) == ConfigClients[cert.uid].fingerprint = cert.fingerprint
NotRevoked(cert) == ~ConfigClients[cert.uid].revoked /\ cert.serial \notin ConfigCRL
Authorised(client_id, library_id) ==
    /\ library_id \in DOMAIN ConfigLibraries
    /\ client_id \in ConfigLibraries[library_id].authorized_clients

\* C3: a step that adds a session to the table is a HANDSHAKE on a connection
\* whose certificate names a client of the client table, has the fingerprint
\* stored for it, is neither flagged revoked nor listed in the CRL, and whose
\* client the session's library authorises; so every session in the table
\* pairs a client with a library that authorises it
C3_SessionOnlyAfterFourChecks ==
    /\ [](\A s \in DOMAIN sessions : Authorised(sessions[s].client_id, sessions[s].library_id))
    /\ [][\A s \in DOMAIN sessions' \ DOMAIN sessions :
             \E c \in Conns :
                 LET cert == conns[c].cert
                 IN /\ Responded(c)
                    /\ last'.cmd = CMD_HANDSHAKE
                    /\ sessions'[s].client_id = cert.uid
                    /\ ClientKnown(cert)
                    /\ FingerprintMatches(cert)
                    /\ NotRevoked(cert)
                    /\ Authorised(cert.uid, sessions'[s].library_id)]_vars

\* a HANDSHAKE of cA for L2 has just created a session
C3_Witness ==
    /\ last.cmd = CMD_HANDSHAKE
    /\ last.status = STATUS_SUCCESS
    /\ conns[1].authenticated
    /\ conns[1].session_id \in DOMAIN sessions
    /\ sessions[conns[1].session_id].client_id = "cA"
    /\ sessions[conns[1].session_id].library_id = L2

\* C4: a request handled on a connection that is unauthenticated before and
\* after it touches no filesystem path and leaves sessions, library locks,
\* file locks and transfer states as they were
C4_NothingBeforeHandshake ==
    [][\A c \in Conns :
          (Responded(c) /\ ~conns[c].authenticated /\ ~conns'[c].authenticated)
              => /\ last'.touched = {}
                 /\ fs' = fs
                 /\ UNCHANGED regVars]_vars

\* a PUT_CHUNK naming a file outside every library was refused on an
\* unauthenticated connection while the table holds a session
C4_Witness ==
    /\ last.cmd = CMD_PUT_CHUNK
    /\ ~conns[1].authenticated
    /\ conns[1].pc = "recv"
    /\ last.touched = {}
    /\ DOMAIN sessions # {}
    /\ fs = [p \in {OutsidePath} |-> <<0>>]

\* C9: after the answer 401 to a command other than HANDSHAKE the handler
\* has stopped reading from the connection
C9_UnauthorizedThenClosed ==
    (last.status = STATUS_UNAUTHORIZED /\ last.cmd # CMD_HANDSHAKE)
        => conns[last.conn].pc = "closing"

\* the errors of validate_client_certificate and check_library_access
AuthCheckErrors ==
    {"AuthenticationError", "CertificateError", "CertificateRevokedError",
     "LibraryAccessDeniedError"}

\* C10: a HANDSHAKE that failed one of the checks was answered 401 or 403,
\* its handler has stopped and the table has no session of the connection
C10_FailedHandshakeRejected ==
    (last.cmd = CMD_HANDSHAKE /\ last.err \in AuthCheckErrors)
        => /\ last.status \in {STATUS_UNAUTHORIZED, STATUS_FORBIDDEN}
           /\ conns[last.conn].pc = "closing"
           /\ conns[last.conn].session_id \notin DOMAIN sessions

\* ------------------------------------------------------------------------
\* Properties of file commands (SpecXfer)
\* ------------------------------------------------------------------------
\* r is the directory base or lies under it, component by component
IsWithin(r, base) ==
    LET rc == NormComps(split(r), <<>>, 1)
        bc == NormComps(split(base), <<>>, 1)
    IN /\ isabs(r)
       /\ Len(bc) <= Len(rc)
       /\ SubSeq(rc, 1, Len(bc)) = bc

\* C5: every filesystem path a handler has read, written, renamed or listed
\* lies under the library root of the connection's session
C5_TouchedUnderRoot ==
    \A p \in last.touched :
        /\ conns[last.conn].library_id \in DOMAIN ConfigLibraries
        /\ IsWithin(p, ConfigLibraries[conns[last.conn].library_id].path)

\* C6: when PUT_COMPLETE is answered 200, the file at a path the session was
\* uploading has the SHA-256 that the PUT_START of that upload gave
C6_FinalMatchesStartChecksum ==
    [][\A c \in Conns :
          (Responded(c) /\ last'.cmd = CMD_PUT_COMPLETE /\ last'.status = STATUS_SUCCESS
              /\ conns[c].session_id \in DOMAIN sessions)
              => LET uploads == sessions[conns[c].session_id].active_transfers
                 IN \A p \in DOMAIN uploads \cap last'.touched :
                        /\ p \in DOMAIN fs'
                        /\ Sha(fs'[p]) = uploads[p].checksum]_vars

\* ------------------------------------------------------------------------
\* Properties of the library lock and of session close (Spec)
\* ------------------------------------------------------------------------
\* C11: a HANDSHAKE for a library whose lock names another client, sent by a
\* client that passes the certificate checks and is authorised for the
\* library, is answered 423 and leaves sessions and locks as they were
C11_LibraryInUse423 ==
    [][\A c \in Conns :
          LET cert == conns[c].cert
              lib == conns'[c].library_id
          IN (/\ Responded(c)
              /\ last'.cmd = CMD_HANDSHAKE
              /\ validate_client_certificate(cert).ok
              /\ Authorised(cert.uid, lib)
              /\ lib \in DOMAIN library_locks
              /\ library_locks[lib] # cert.uid)
                 => /\ last'.status = STATUS_LOCKED
                    /\ UNCHANGED regVars]_vars

\* C12: a step that closes the session of the client holding the lock of a
\* library removes that lock, and a HANDSHAKE for a library without a lock,
\* by a client that passes the certificate checks and is authorised, is
\* answered 200 and creates a session of that client on the library
C12_LockReleasedThenNextClient ==
    [][/\ \A s \in DOMAIN sessions \ DOMAIN sessions' :
             LET lib == sessions[s].library_id
             IN (lib \in DOMAIN library_locks /\ library_locks[lib] = sessions[s].client_id)
                    => lib \notin DOMAIN library_locks'
       /\ \A c \in Conns :
             LET cert == conns[c].cert
                 lib == conns'[c].library_id
                 sid == conns'[c].session_id
             IN (/\ Responded(c)
                 /\ last'.cmd = CMD_HANDSHAKE
                 /\ validate_client_certificate(cert).ok
                 /\ Authorised(cert.uid, lib)
                 /\ lib \notin DOMAIN library_locks)
                    => /\ last'.status = STATUS_SUCCESS
                       /\ sid \in DOMAIN sessions' \ DOMAIN sessions
                       /\ sessions'[sid].client_id = cert.uid
                       /\ sessions'[sid].library_id = lib
                       /\ library_locks'[lib] = cert.uid]_vars

\* the session that cA held on L1 has been closed (its handler still names
\* it), the lock went with it, and cB has just been given L1
C12_Witness ==
    /\ last.cmd = CMD_HANDSHAKE
    /\ last.status = STATUS_SUCCESS
    /\ conns[last.conn].cert = CertB
    /\ library_locks = [l \in {L1} |-> "cB"]
    /\ Cardinality(DOMAIN sessions) = 1
    /\ \E c \in Conns :
          /\ conns[c].cert = CertA
          /\ conns[c].library_id = L1
          /\ conns[c].authenticated
          /\ conns[c].session_id \notin DOMAIN sessions

\* ------------------------------------------------------------------------
\* Specification of file locks: two connections of cA on L1 with one
\* HANDSHAKE each, uploads of two files that start and are never completed,
\* so that a file lock goes away only when its session is closed
\* ------------------------------------------------------------------------
FileB == <<"b">>

NextLocks ==
    \/ \E c \in Conns : AcceptConnection(c, CertA)
    \/ \E c \in Conns : Cleanup(c)
    \/ \E c \in Conns : ConnectionLost(c)
    \/ \E c \in Conns : ~conns[c].authenticated /\ HandleHandshake(c, L1)
    \/ \E c \in Conns : HandleDisconnect(c)
    \/ \E c \in Conns, p \in {FileA, FileB} : HandlePutStart(c, p, 0, Sha(<<>>), FALSE)
    \/ \E c \in Conns : PutStartLocked(c)

SpecLocks == Init /\ [][NextLocks]_vars

\* a session record without its activity clock
Timeless(session) == [session EXCEPT !.idle = 0]

\* C13: a step that closes sessions removes them from the table with their
\* TransferStates, leaves no file lock owned by them, and leaves every other
\* session and every file lock of another owner as it was
C13_CloseSessionFrame ==
    [][LET closed == DOMAIN sessions \ DOMAIN sessions'
       IN closed # {} =>
             /\ DOMAIN sessions' = DOMAIN sessions \ closed
             /\ \A p \in DOMAIN file_locks' : file_locks'[p] \notin closed
             /\ \A t \in DOMAIN sessions' : Timeless(sessions'[t]) = Timeless(sessions[t])
             /\ \A p \in DOMAIN file_locks :
                   file_locks[p] \notin closed
                       => p \in DOMAIN file_locks' /\ file_locks'[p] = file_locks[p]
             /\ DOMAIN file_locks' \subseteq DOMAIN file_locks]_vars

\* the session that started the upload of "a" has been closed: its lock on
\* /p/a is gone, and the other session keeps its lock on /p/b and its
\* TransferState
C13_Witness ==
    /\ TempPathOf(pathjoin(RootL1, FileA)) \in DOMAIN fs
    /\ Cardinality(DOMAIN sessions) = 1
    /\ \E t \in DOMAIN sessions :
          /\ file_locks = [p \in {pathjoin(RootL1, FileB)} |-> t]
          /\ sessions[t].locked_files = {pathjoin(RootL1, FileB)}
          /\ DOMAIN sessions[t].active_transfers = {pathjoin(RootL1, FileB)}
    /\ \E c \in Conns : conns[c].pc = "free"

\* ------------------------------------------------------------------------
\* Properties of the idle reaper
\* ------------------------------------------------------------------------
\* C14: a scan of the reaper closes a session exactly when its idle age at
\* the scan exceeds the idle_timeout configured for the session's library
C14_ReapedByOwnTimeout ==
    [][ReaperScan =>
          \A s \in DOMAIN sessions :
              LET age == sessions[s].idle + ScansPerStep * SESSION_CLEANUP_INTERVAL
                  timeout == ConfigLibraries[sessions[s].library_id].idle_timeout
              IN s \notin DOMAIN sessions' <=> age > timeout]_vars

\* C15: no request is read and answered on a connection whose session has
\* been closed under it
C15_NothingServedAfterReap ==
    [][\A c \in Conns :
          ~(/\ Responded(c)
            /\ conns[c].pc = "recv"
            /\ conns[c].authenticated
            /\ conns[c].session_id \notin DOMAIN sessions)]_vars

\* ------------------------------------------------------------------------
\* Properties of uploads (SpecXfer)
\* ------------------------------------------------------------------------
\* C16: after PUT_COMPLETE is answered 200, the session has no TransferState
\* for a path the handler touched and owns no file lock on it
C16_CompleteClearsTransfer ==
    [][\A c \in Conns :
          (Responded(c) /\ last'.cmd = CMD_PUT_COMPLETE /\ last'.status = STATUS_SUCCESS)
              => LET sid == conns'[c].session_id
                 IN \A p \in last'.touched :
                        /\ sid \in DOMAIN sessions'
                              => /\ p \notin DOMAIN sessions'[sid].active_transfers
                                 /\ p \notin sessions'[sid].locked_files
                        /\ ~(p \in DOMAIN file_locks' /\ file_locks'[p] = sid)]_vars

\* an upload of the byte 1 to /p/a through its temp file has just been
\* completed: no TransferState and no file lock is left
C16_Witness ==
    /\ last.cmd = CMD_PUT_COMPLETE
    /\ last.status = STATUS_SUCCESS
    /\ last.touched = {TempA1, pathjoin(RootL1, FileA)}
    /\ fs = [p \in {OutsidePath, pathjoin(RootL1, FileA)} |->
                IF p = OutsidePath THEN <<0>> ELSE <<1>>]
    /\ conns[1].session_id \in DOMAIN sessions
    /\ sessions[conns[1].session_id].active_transfers = EmptyMap
    /\ file_locks = EmptyMap

\* C17: every TransferState of every session has
\* 0 <= bytes_transferred <= file_size, whatever PUT_CHUNK requests were
\* served (out of order, or again at an offset already written)
C17_BytesWithinSize ==
    \A s \in DOMAIN sessions :
        \A p \in DOMAIN sessions[s].active_transfers :
            LET transfer == sessions[s].active_transfers[p]
            IN /\ 0 <= transfer.bytes_transferred
               /\ transfer.bytes_transferred <= transfer.file_size

\* C18: when PUT_COMPLETE of an upload in progress fails because the SHA-256
\* of the temp file PUT_START issued differs from the expected checksum, the
\* answer is 500, the temp file is gone, no other path of the file system is
\* created or modified, and the session stays open
C18_MismatchDeletesTemp ==
    [][\A c \in Conns :
          (/\ Responded(c)
           /\ last'.cmd = CMD_PUT_COMPLETE
           /\ last'.err = "ChecksumMismatchError"
           /\ conns[c].session_id \in DOMAIN sessions
           /\ \E p \in DOMAIN sessions[conns[c].session_id].active_transfers :
                  last'.touched = {TempPathOf(p)})
              => /\ last'.status = STATUS_INTERNAL_ERROR
                 /\ \A temp \in last'.touched : temp \notin DOMAIN fs'
                 /\ \A p \in (DOMAIN fs \cup DOMAIN fs') \ last'.touched :
                        p \in DOMAIN fs /\ p \in DOMAIN fs' /\ fs'[p] = fs[p]
                 /\ conns'[c].pc = "recv"
                 /\ conns'[c].session_id \in DOMAIN sessions']_vars

\* ------------------------------------------------------------------------
\* Specification of the uploading client (client/transfer_manager.py,
\* TransferManager.upload_file with resume=True) against the server: one
\* connection of cA on L1 that can be lost at any point and opened again
\* ------------------------------------------------------------------------
\* the client's local file
LocalPath == <<"/", "l">>

\* contents of the local file
Sources == ChunksUpTo(MaxFileLen)

\* the upload the server tracks for remote_path on connection c. The client's
\* "offset" equals its bytes_transferred: both start at resume_offset and both
\* advance by the bytes_written of every PUT_CHUNK response.
UploadInProgress(c, remote_path) ==
    /\ conns[c].session_id \in DOMAIN sessions
    /\ pathjoin(RootL1, remote_path) \in DOMAIN sessions[conns[c].session_id].active_transfers

UploadOffset(c, remote_path) ==
    sessions[conns[c].session_id].active_transfers[pathjoin(RootL1, remote_path)].bytes_transferred

\* upload_file: file_size, checksum of the local file, then PUT_START
upload_file_start(c, remote_path) ==
    /\ conns[c].authenticated
    /\ conns[c].session_id \in DOMAIN sessions
    /\ sessions[conns[c].session_id].active_transfers = EmptyMap
    /\ HandlePutStart(c, remote_path, Len(fs[LocalPath]), Sha(fs[LocalPath]), TRUE)

\* upload_file: "while offset < file_size": read chunk_size bytes at offset,
\* send PUT_CHUNK with the temp_filepath of the PUT_START response
upload_file_chunk(c, remote_path) ==
    /\ conns[c].authenticated
    /\ UploadInProgress(c, remote_path)
    /\ LET offset == UploadOffset(c, remote_path)
           file_size == Len(fs[LocalPath])
           end == IF offset + MaxChunk < file_size THEN offset + MaxChunk ELSE file_size
       IN /\ offset < file_size
          /\ HandlePutChunk(c, remote_path, TempPathOf(pathjoin(RootL1, remote_path)), offset,
                            SubSeq(fs[LocalPath], offset + 1, end))

\* upload_file: after the loop, PUT_COMPLETE with the checksum of the local file
upload_file_complete(c, remote_path) ==
    /\ conns[c].authenticated
    /\ UploadInProgress(c, remote_path)
    /\ UploadOffset(c, remote_path) >= Len(fs[LocalPath])
    /\ HandlePutComplete(c, remote_path, TempPathOf(pathjoin(RootL1, remote_path)),
                         Sha(fs[LocalPath]))

InitResume ==
    /\ conns = [c \in Conns |-> FreshHandler]
    /\ sessions = EmptyMap
    /\ library_locks = EmptyMap
    /\ file_locks = EmptyMap
    /\ \E content \in Sources : fs = [p \in {LocalPath} |-> content]
    /\ last = NoResponse
    /\ vp_in = NoInput
    /\ vp_out = NotRun
    /\ OthersIdle({})

NextResume ==
    \/ AcceptConnection(1, CertA)
    \/ Cleanup(1)
    \/ ConnectionLost(1)
    \/ ~conns[1].authenticated /\ HandleHandshake(1, L1)
    \/ HandleDisconnect(1)
    \/ \E p \in {FileA, FileB} : upload_file_start(1, p)
    \/ PutStartLocked(1)
    \/ \E p \in {FileA, FileB} : upload_file_chunk(1, p)
    \/ \E p \in {FileA, FileB} : upload_file_complete(1, p)

SpecResume == InitResume /\ [][NextResume]_vars

\* ------------------------------------------------------------------------
\* Properties of resumed uploads (SpecResume)
\* ------------------------------------------------------------------------
\* C19: when PUT_START with resume=true is answered 200 for a path whose temp
\* file holds K <= N bytes of an interrupted upload of the N-byte local file,
\* the resume_offset it returns (the TransferState's first bytes_transferred)
\* is K; and when the client's PUT_COMPLETE is answered 200, the final file is
\* byte-identical to the local file
C19_ResumeAtK ==
    [][\A c \in Conns :
          /\ (/\ Responded(c)
              /\ last'.cmd = CMD_PUT_START
              /\ last'.status = STATUS_SUCCESS
              /\ conns[c].pending.resume
              /\ TempPathOf(conns[c].pending.abs_path) \in DOMAIN fs
              /\ Len(fs[TempPathOf(conns[c].pending.abs_path)]) <= conns[c].pending.file_size)
                 => sessions'[conns[c].session_id].active_transfers[conns[c].pending.abs_path].bytes_transferred
                        = Len(fs[TempPathOf(conns[c].pending.abs_path)])
          /\ (/\ Responded(c)
              /\ last'.cmd = CMD_PUT_COMPLETE
              /\ last'.status = STATUS_SUCCESS)
                 => \E final \in last'.touched :
                        /\ final \in DOMAIN fs'
                        /\ fs'[final] = fs[LocalPath]
                        /\ Sha(fs'[final]) = Sha(fs[LocalPath])]_vars

\* ------------------------------------------------------------------------
\* Specification of the round trip (client/transfer_manager.py): one client
\* that uploads its local file to FileA and downloads FileA to DestPath with
\* resume=True, over a connection that can be lost at any point
\* ------------------------------------------------------------------------
\* local_path of download_file
DestPath == <<"/", "d">>

\* the client is between two calls: download_file is not running and no
\* GET_START response waits to be read
ClientIdle(c) == download.pc = "idle" /\ last.cmd # CMD_GET_START

\* download_file: "if resume and local_file.exists(): resume_offset = size"
LocalResumeOffset == IF DestPath \in DOMAIN fs THEN Len(fs[DestPath]) ELSE 0

\* download_file: GET_START with offset=resume_offset
download_file_start(c, remote_path) ==
    /\ ClientIdle(c)
    /\ conns[c].authenticated
    /\ conns[c].session_id \in DOMAIN sessions
    /\ sessions[conns[c].session_id].active_transfers = EmptyMap
    /\ HandleGetStart(c, remote_path, LocalResumeOffset)

\* download_file: receive_message raises ProtocolError on a status other than
\* 200; otherwise file_size and checksum are taken from the response and the
\* local file is opened in mode 'ab', which creates it
download_file_open(c, remote_path) ==
    /\ download.pc = "idle"
    /\ last.cmd = CMD_GET_START
    /\ last.conn = c
    /\ IF last.status # STATUS_SUCCESS
       THEN /\ download' = [NoDownload EXCEPT !.outcome = "ProtocolError"]
            /\ fs' = fs
       ELSE /\ download' = [pc |-> "chunks", remote_path |-> remote_path,
                            resume_offset |-> LocalResumeOffset,
                            file_size |-> last.data.file_size,
                            checksum |-> last.data.checksum, outcome |-> "none"]
            /\ fs' = IF DestPath \in DOMAIN fs THEN fs ELSE Put(fs, DestPath, <<>>)
    /\ last' = NoResponse
    /\ UNCHANGED <<conns, regVars, vp_in, vp_out, frame, connection, ops, retry, limiter, stream, shutdown, listing>>

\* download_file: "while offset < file_size": GET_CHUNK at offset for
\* min(chunk_size, file_size - offset) bytes. The file is written in append
\* mode, so offset is the size of the local file.
download_file_chunk(c) ==
    /\ download.pc = "chunks"
    /\ last.cmd # CMD_GET_CHUNK
    /\ LET offset == Len(fs[DestPath])
           left == download.file_size - offset
       IN /\ offset < download.file_size
          /\ HandleGetChunk(c, download.remote_path, offset,
                            IF MaxChunk < left THEN MaxChunk ELSE left)

\* download_file: the GET_CHUNK response and its binary tail; f.write(chunk_data)
download_file_write(c) ==
    /\ download.pc = "chunks"
    /\ last.cmd = CMD_GET_CHUNK
    /\ last.conn = c
    /\ IF last.status # STATUS_SUCCESS
       THEN /\ download' = [download EXCEPT !.pc = "idle", !.outcome = "ProtocolError"]
            /\ fs' = fs
       ELSE /\ download' = download
            /\ fs' = [fs EXCEPT ![DestPath] = @ \o last.data.chunk]
    /\ last' = NoResponse
    /\ UNCHANGED <<conns, regVars, vp_in, vp_out, frame, connection, ops, retry, limiter, stream, shutdown, listing>>

\* download_file after the loop: calculate_file_checksum(local_file) against
\* the checksum of the GET_START response; the file is unlinked on a mismatch
download_file_verify(c) ==
    /\ download.pc = "chunks"
    /\ last.cmd # CMD_GET_CHUNK
    /\ Len(fs[DestPath]) >= download.file_size
    /\ IF Sha(fs[DestPath]) # download.checksum
       THEN /\ download' = [download EXCEPT !.pc = "idle", !.outcome = "ChecksumMismatchError"]
            /\ fs' = Remove(fs, DestPath)
       ELSE /\ download' = [download EXCEPT !.pc = "idle", !.outcome = "complete"]
            /\ fs' = fs
    /\ last' = NoResponse
    /\ UNCHANGED <<conns, regVars, vp_in, vp_out, frame, connection, ops, retry, limiter, stream, shutdown, listing>>

\* download_file: send_message / receive_message on a connection that is gone
\* raises ConnectionError
download_file_abort(c) ==
    /\ download.pc = "chunks"
    /\ conns[c].pc = "free"
    /\ Len(fs[DestPath]) < download.file_size
    /\ download' = [download EXCEPT !.pc = "idle", !.outcome = "ConnectionError"]
    /\ last' = NoResponse
    /\ UNCHANGED <<conns, regVars, fs, vp_in, vp_out, frame, connection, ops, retry, limiter, stream, shutdown, listing>>

InitRoundTrip ==
    /\ conns = [c \in Conns |-> FreshHandler]
    /\ sessions = EmptyMap
    /\ library_locks = EmptyMap
    /\ file_locks = EmptyMap
    /\ \E content \in Sources :
          \/ fs = [p \in {LocalPath} |-> content]
          \/ \E stale \in Sources :
                fs = [p \in {LocalPath, DestPath} |-> IF p = LocalPath THEN content ELSE stale]
    /\ last = NoResponse
    /\ vp_in = NoInput
    /\ vp_out = NotRun
    /\ OthersIdle({})

NextRoundTrip ==
    \/ ClientIdle(1) /\ AcceptConnection(1, CertA)
    \/ Cleanup(1)
    \/ ConnectionLost(1)
    \/ ClientIdle(1) /\ ~conns[1].authenticated /\ HandleHandshake(1, L1)
    \/ ClientIdle(1) /\ HandleDisconnect(1)
    \/ ClientIdle(1) /\ upload_file_start(1, FileA)
    \/ PutStartLocked(1)
    \/ ClientIdle(1) /\ upload_file_chunk(1, FileA)
    \/ ClientIdle(1) /\ upload_file_complete(1, FileA)
    \/ download_file_start(1, FileA)
    \/ download_file_open(1, FileA)
    \/ download_file_chunk(1)
    \/ download_file_write(1)
    \/ download_file_verify(1)
    \/ download_file_abort(1)

SpecRoundTrip == InitRoundTrip /\ [][NextRoundTrip]_vars

\* ------------------------------------------------------------------------
\* Properties of the round trip (SpecRoundTrip)
\* ------------------------------------------------------------------------
\* C20: when download_file of the uploaded path has returned, the local copy
\* is byte-identical to the uploaded local file (same size, same SHA-256);
\* and a download that started from no local bytes never ends in a checksum
\* mismatch
C20_RoundTrip ==
    /\ download.outcome = "complete"
          => /\ DestPath \in DOMAIN fs
             /\ fs[DestPath] = fs[LocalPath]
             /\ Len(fs[DestPath]) = Len(fs[LocalPath])
             /\ Sha(fs[DestPath]) = Sha(fs[LocalPath])
             /\ fs[pathjoin(RootL1, download.remote_path)] = fs[LocalPath]
    /\ download.outcome = "ChecksumMismatchError" => download.resume_offset > 0

\* the two bytes 0 1 were uploaded to /p/a and downloaded chunk by chunk into
\* a local file that did not exist before
C20_Witness ==
    /\ download.outcome = "complete"
    /\ download.resume_offset = 0
    /\ download.file_size = 2
    /\ fs[LocalPath] = <<0, 1>>
    /\ pathjoin(RootL1, FileA) \in DOMAIN fs
    /\ fs[pathjoin(RootL1, FileA)] = <<0, 1>>
    /\ DestPath \in DOMAIN fs
    /\ fs[DestPath] = <<0, 1>>

\* ------------------------------------------------------------------------
\* Properties of rejected requests (SpecXfer)
\* ------------------------------------------------------------------------
\* C26: a PUT_START of an authenticated handler whose filepath escapes the
\* library root is answered 400 (PathTraversalError) and has no effect: the
\* file system, the file locks, the library locks and every session's
\* TransferStates and locked files are as before
C26_EscapingPutStart400 ==
    [][\A c \in Conns, size \in 0..MaxFileLen, sum \in Checksums, resume \in BOOLEAN :
          (conns[c].authenticated /\ HandlePutStart(c, EscapingPath, size, sum, resume))
              => /\ last'.conn = c
                 /\ last'.cmd = CMD_PUT_START
                 /\ last'.status = STATUS_BAD_REQUEST
                 /\ last'.err = "PathTraversalError"
                 /\ fs' = fs
                 /\ file_locks' = file_locks
                 /\ library_locks' = library_locks
                 /\ DOMAIN sessions' = DOMAIN sessions
                 /\ \A s \in DOMAIN sessions :
                        /\ sessions'[s].active_transfers = sessions[s].active_transfers
                        /\ sessions'[s].locked_files = sessions[s].locked_files
                 /\ conns'[c].pc = "recv"]_vars

\* the handler of cA on L1 has just refused "../o" while an upload of /p/a
\* is in progress, which is still there
C26_Witness ==
    /\ conns[1].authenticated
    /\ last.conn = 1
    /\ last.cmd = CMD_PUT_START
    /\ last.status = STATUS_BAD_REQUEST
    /\ last.err = "PathTraversalError"
    /\ file_locks # EmptyMap
    /\ \E s \in DOMAIN sessions : sessions[s].active_transfers # EmptyMap

\* C27: a PUT_START with resume=false for a path whose final file exists is
\* answered 409, and the file system is left as it was
C27_ExistingFile409 ==
    [][\A c \in Conns :
          (/\ PutStartLocked(c)
           /\ ~conns[c].pending.resume
           /\ conns[c].pending.abs_path \in DOMAIN fs)
              => /\ last'.conn = c
                 /\ last'.cmd = CMD_PUT_START
                 /\ last'.status = STATUS_CONFLICT
                 /\ fs' = fs]_vars

\* C28: a DELETE of an authenticated handler for a path inside the library
\* at which nothing exists is answered 404 and leaves the file system
\* unchanged
C28_DeleteMissing404 ==
    [][\A c \in Conns :
          (/\ conns[c].authenticated
           /\ pathjoin(RootL1, FileA) \notin DOMAIN fs
           /\ HandleDelete(c, FileA))
              => /\ last'.conn = c
                 /\ last'.cmd = CMD_DELETE
                 /\ last'.status = STATUS_NOT_FOUND
                 /\ fs' = fs]_vars

\* C29: a PING of an authenticated handler is answered 200 and changes
\* nothing but the activity time of the handler's session: the same sessions
\* with the same TransferStates and locked files, the same library locks and
\* file locks, the same file system, the same handlers
C29_PingChangesNothing ==
    [][\A c \in Conns :
          (conns[c].authenticated /\ HandlePing(c))
              => /\ last'.conn = c
                 /\ last'.cmd = CMD_PING
                 /\ last'.status = STATUS_SUCCESS
                 /\ DOMAIN sessions' = DOMAIN sessions
                 /\ \A s \in DOMAIN sessions : Timeless(sessions'[s]) = Timeless(sessions[s])
                 /\ conns[c].session_id \in DOMAIN sessions
                       => sessions'[conns[c].session_id].idle = 0
                 /\ library_locks' = library_locks
                 /\ file_locks' = file_locks
                 /\ fs' = fs
                 /\ conns' = conns]_vars

\* a PING has just been answered 200 while an upload with one byte
\* transferred is in progress
C29_Witness ==
    /\ last.cmd = CMD_PING
    /\ last.status = STATUS_SUCCESS
    /\ conns[last.conn].authenticated
    /\ file_locks # EmptyMap
    /\ \E s \in DOMAIN sessions : \E p \in DOMAIN sessions[s].active_transfers :
          sessions[s].active_transfers[p].bytes_transferred = 1
    /\ TempA1 \in DOMAIN fs

\* ---------------------------------------------------------------------------
\* Specification of the rate limiter (server/rate_limiter.py)
\* ---------------------------------------------------------------------------
\* Time is counted in ticks of 1/rate_limit_bps seconds, so that one token is
\* refilled per tick, elapsed * rate_limit_bps is the number of ticks elapsed,
\* and tokens_needed / rate_limit_bps seconds are tokens_needed ticks.

\* limits of the libraries, bytes per second (0, unlimited, is not limited)
Rates == {1, 2, 3}
\* largest byte_count of one acquire: more than any bucket holds
MaxAcquire == 4
\* ticks the clock is followed for
MaxNow == 12

\* Python's min
min(a, b) == IF a < b THEN a ELSE b

\* RateLimiter.__init__
RateLimiter_init(rate_limit_bps, now) ==
    [pc |-> "idle", rate_limit_bps |-> rate_limit_bps, tokens |-> rate_limit_bps,
     max_tokens |-> rate_limit_bps, last_update |-> now, now |-> now, created |-> now,
     byte_count |-> 0, wait_time |-> 0, waited |-> 0, granted |-> 0, full_chunks |-> 0]

\* mutant: the bucket is filled up whatever time has passed
refill_Full(L, now) == [L EXCEPT !.tokens = L.max_tokens, !.last_update = now]

\* "Refill tokens based on time elapsed"
refill(L, now) ==
    [L EXCEPT !.tokens = min(L.max_tokens, L.tokens + (now - L.last_update)),
              !.last_update = now]

\* "Consume tokens", and the call returns
consume(L, byte_count) ==
    [L EXCEPT !.pc = "idle",
              !.tokens = @ - byte_count,
              !.granted = @ + byte_count,
              !.full_chunks = IF byte_count = L.rate_limit_bps THEN @ + 1 ELSE @]

InitRate ==
    /\ conns = [c \in Conns |-> FreshHandler]
    /\ sessions = EmptyMap
    /\ library_locks = EmptyMap
    /\ file_locks = EmptyMap
    /\ fs = [p \in {OutsidePath} |-> <<0>>]
    /\ last = NoResponse
    /\ vp_in = NoInput
    /\ vp_out = NotRun
    /\ OthersIdle({"limiter"})
    /\ \E r \in Rates : limiter = RateLimiter_init(r, 0)

\* the clock
Tick ==
    /\ limiter.now < MaxNow
    /\ limiter' = [limiter EXCEPT !.now = @ + 1]
    /\ UNCHANGED <<serverVars, vp_in, vp_out, download, frame, connection, ops, retry, stream, shutdown, listing>>

\* acquire up to time.sleep, or up to its return when the bucket holds enough
acquire(byte_count) ==
    /\ limiter.pc = "idle"
    /\ LET L == refill(limiter, limiter.now)
       IN IF byte_count > L.tokens
          THEN limiter' = [L EXCEPT !.pc = "sleeping", !.byte_count = byte_count,
                                    !.wait_time = byte_count - L.tokens]
          ELSE limiter' = consume(L, byte_count)
    /\ UNCHANGED <<serverVars, vp_in, vp_out, download, frame, connection, ops, retry, stream, shutdown, listing>>

\* time.sleep returns, not before wait_time has passed; the rest of acquire
acquire_wake ==
    /\ limiter.pc = "sleeping"
    /\ limiter.now >= limiter.last_update + limiter.wait_time
    /\ limiter' = [consume(refill(limiter, limiter.now), limiter.byte_count)
                        EXCEPT !.waited = @ + limiter.wait_time, !.wait_time = 0]
    /\ UNCHANGED <<serverVars, vp_in, vp_out, download, frame, connection, ops, retry, stream, shutdown, listing>>

NextRate ==
    \/ Tick
    \/ \E n \in 1..MaxAcquire : acquire(n)
    \/ acquire_wake

SpecRate == InitRate /\ [][NextRate]_vars

\* C30: the bytes whose acquire has returned by time t are at most r*t + r
\* (t seconds are r*t ticks since the limiter was created)
C30_GrantedWithinRate ==
    limiter.pc # "none"
        => limiter.granted <= (limiter.now - limiter.created) + limiter.rate_limit_bps

\* four chunks of r bytes each have been acquired one right after the other:
\* the calls slept 3 seconds between them, and exactly 3 seconds have passed
C30_Witness ==
    /\ limiter.pc = "idle"
    /\ limiter.rate_limit_bps = 2
    /\ limiter.full_chunks = 4
    /\ limiter.granted = 4 * limiter.rate_limit_bps
    /\ limiter.now - limiter.created = 3 * limiter.rate_limit_bps
    /\ limiter.waited = 3 * limiter.rate_limit_bps
    /\ limiter.tokens = 0

\* ---------------------------------------------------------------------------
\* Specification of the codec (common/protocol.py)
\* ---------------------------------------------------------------------------
\* Text is a sequence of characters and bytes are a sequence of byte values;
\* the characters used here are ASCII, which utf-8 encodes one byte each.

\* struct format '16s16s64sQII32s880s'
VERSION_LEN == 16
TYPE_LEN == 16
COMMAND_LEN == 64
CONTENT_LENGTH_LEN == 8
STATUS_CODE_LEN == 4
FLAGS_LEN == 4
CHECKSUM_LEN == 32
RESERVED_LEN == 880
MESSAGE_HEADER_SIZE == 1024
\* characters of hashlib's hexdigest of a SHA-256
SHA256_HEX_LEN == 64

NUL == "\\x00"
\* a byte that is not utf-8 text
BadByte == "\\xff"

PROTOCOL_VERSION == <<"1", ".", "0", ".", "0">>
MessageType == {<<"R", "E", "Q", "U", "E", "S", "T">>,
                <<"R", "E", "S", "P", "O", "N", "S", "E">>,
                <<"D", "A", "T", "A">>}
\* names of four of the commands, as text
CommandNames == {<<"P", "I", "N", "G">>,
                 <<"H", "A", "N", "D", "S", "H", "A", "K", "E">>,
                 <<"P", "U", "T", "_", "S", "T", "A", "R", "T">>,
                 <<"D", "E", "L", "E", "T", "E">>}
\* JSON objects, as the sequence of their members
Contents == {<<>>, <<<<"filepath", "a">>>>, <<<<"filepath", "a">>, <<"offset", 1>>>>}

\* bytes[:n]
Take(bytes, n) == SubSeq(bytes, 1, min(n, Len(bytes)))

\* struct's 'ns': n bytes, cut or filled up with NUL
pack_s(bytes, n) == Take(bytes, n) \o [i \in 1..(n - min(n, Len(bytes))) |-> NUL]

\* str.rstrip('\x00')
RECURSIVE rstrip_nul(_)
rstrip_nul(text) ==
    IF text # <<>> /\ text[Len(text)] = NUL
    THEN rstrip_nul(SubSeq(text, 1, Len(text) - 1))
    ELSE text

\* bytes.decode('utf-8') succeeds
IsText(bytes) == \A i \in DOMAIN bytes : bytes[i] # BadByte

\* hashlib.sha256(bytes).hexdigest(): 64 characters, each depending on the bytes
hexdigest(bytes) == [i \in 1..SHA256_HEX_LEN |-> ToString(<<"sha256", i, bytes>>)]

\* json.dumps(content).encode()
json_dumps(content) == <<"{">> \o content \o <<"}">>

\* json.loads accepts the text
IsJson(text) ==
    /\ Len(text) >= 2
    /\ text[1] = "{"
    /\ text[Len(text)] = "}"
    /\ \A i \in 2..(Len(text) - 1) : text[i] \notin {"{", "}"}

\* json.loads(text), for text it accepts
json_loads(text) == SubSeq(text, 2, Len(text) - 1)

\* len() of the bytes of a packed header
HeaderLen(data) ==
    Len(data.version) + Len(data.message_type) + Len(data.command) + CONTENT_LENGTH_LEN
        + STATUS_CODE_LEN + FLAGS_LEN + Len(data.checksum) + data.reserved

\* MessageHeader.serialize; the reserved bytes are kept as their number
MessageHeader_serialize(header) ==
    [version |-> pack_s(Take(header.version, VERSION_LEN), VERSION_LEN),
     message_type |-> pack_s(Take(header.message_type, TYPE_LEN), TYPE_LEN),
     command |-> pack_s(Take(header.command, COMMAND_LEN), COMMAND_LEN),
     content_length |-> header.content_length,
     status_code |-> header.status_code,
     flags |-> header.flags,
     checksum |-> pack_s(Take(header.checksum, CHECKSUM_LEN), CHECKSUM_LEN),
     reserved |-> RESERVED_LEN]

\* MessageHeader.deserialize
MessageHeader_deserialize(data) ==
    IF HeaderLen(data) # MESSAGE_HEADER_SIZE
    THEN [ok |-> FALSE, err |-> "InvalidMessageError", why |-> "Invalid header size"]
    ELSE IF ~ (IsText(data.version) /\ IsText(data.message_type)
               /\ IsText(data.command) /\ IsText(data.checksum))
    THEN [ok |-> FALSE, err |-> "InvalidMessageError", why |-> "Failed to deserialize header"]
    ELSE [ok |-> TRUE,
          header |-> [version |-> rstrip_nul(data.version),
                      message_type |-> rstrip_nul(data.message_type),
                      command |-> rstrip_nul(data.command),
                      content_length |-> data.content_length,
                      status_code |-> data.status_code,
                      flags |-> data.flags,
                      checksum |-> rstrip_nul(data.checksum)]]

\* Message.serialize: the header bytes and the content bytes
Message_serialize(message) ==
    LET content_bytes == json_dumps(message.content)
        header == [message.header EXCEPT
                      !.content_length = Len(content_bytes),
                      !.checksum = IF content_bytes # <<>> THEN hexdigest(content_bytes) ELSE @]
    IN [header_data |-> MessageHeader_serialize(header), content_data |-> content_bytes]

\* Message.deserialize
Message_deserialize(header_data, content_data) ==
    LET h == MessageHeader_deserialize(header_data)
    IN IF ~h.ok THEN h
       ELSE IF Len(content_data) # h.header.content_length
       THEN [ok |-> FALSE, err |-> "InvalidMessageError", why |-> "Content length mismatch"]
       ELSE IF /\ h.header.checksum # <<>>
               /\ content_data # <<>>
               /\ hexdigest(content_data) # h.header.checksum
       THEN [ok |-> FALSE, err |-> "InvalidMessageError", why |-> "Checksum mismatch"]
       ELSE IF content_data = <<>>
       THEN [ok |-> TRUE, header |-> h.header, content |-> <<>>]
       ELSE IF ~IsText(content_data)
       THEN [ok |-> FALSE, err |-> "UnicodeDecodeError", why |-> "content_data.decode"]
       ELSE IF ~IsJson(content_data)
       THEN [ok |-> FALSE, err |-> "InvalidMessageError", why |-> "Failed to parse JSON content"]
       ELSE [ok |-> TRUE, header |-> h.header, content |-> json_loads(content_data)]

\* create_request, create_response, create_error_response: a header and a content
Messages ==
    [header : [version : {PROTOCOL_VERSION}, message_type : MessageType,
               command : CommandNames, content_length : {0},
               status_code : {STATUS_SUCCESS, STATUS_BAD_REQUEST, STATUS_INTERNAL_ERROR},
               flags : {0}, checksum : {<<>>}],
     content : Contents]

InitCodec ==
    /\ conns = [c \in Conns |-> FreshHandler]
    /\ sessions = EmptyMap
    /\ library_locks = EmptyMap
    /\ file_locks = EmptyMap
    /\ fs = [p \in {OutsidePath} |-> <<0>>]
    /\ last = NoResponse
    /\ vp_in = NoInput
    /\ vp_out = NotRun
    /\ OthersIdle({"frame"})
    /\ \E message \in Messages : frame = [stage |-> "built", message |-> message]

\* the sender: Message.serialize, sendall
SendFrame ==
    /\ frame.stage = "built"
    /\ frame' = [stage |-> "sent", message |-> frame.message,
                 wire |-> Message_serialize(frame.message)]
    /\ UNCHANGED <<serverVars, vp_in, vp_out, download, connection, ops, retry, limiter, stream, shutdown, listing>>

\* the receiver: 1024 header bytes, content_length content bytes, Message.deserialize
ReceiveFrame ==
    /\ frame.stage = "sent"
    /\ frame' = [stage |-> "received", message |-> frame.message, wire |-> frame.wire,
                 result |-> Message_deserialize(frame.wire.header_data, frame.wire.content_data)]
    /\ UNCHANGED <<serverVars, vp_in, vp_out, download, connection, ops, retry, limiter, stream, shutdown, listing>>

NextCodec ==
    \/ SendFrame
    \/ ReceiveFrame

SpecCodec == InitCodec /\ [][NextCodec]_vars

\* C22: what Message.serialize produces, Message.deserialize accepts and
\* returns with the same kind, command, status code and content; the header
\* is 1024 bytes and its checksum field equals, for the receiver, the
\* SHA-256 of the body
C22_SerializeDeserialize ==
    frame.stage = "received"
        => /\ HeaderLen(frame.wire.header_data) = MESSAGE_HEADER_SIZE
           /\ frame.result.ok
           /\ frame.result.header.message_type = frame.message.header.message_type
           /\ frame.result.header.command = frame.message.header.command
           /\ frame.result.header.status_code = frame.message.header.status_code
           /\ frame.result.content = frame.message.content
           /\ frame.result.header.checksum = hexdigest(frame.wire.content_data)

\* ---------------------------------------------------------------------------
\* Specification of the server reading frames (ConnectionHandler.handle)
\* ---------------------------------------------------------------------------
NoChecksumField == pack_s(<<>>, CHECKSUM_LEN)

\* create_request(CMD_PING), as text
PingRequest ==
    [header |-> [version |-> PROTOCOL_VERSION, message_type |-> <<"R", "E", "Q", "U", "E", "S", "T">>,
                 command |-> <<"P", "I", "N", "G">>, content_length |-> 0,
                 status_code |-> STATUS_SUCCESS, flags |-> 0, checksum |-> <<>>],
     content |-> <<>>]

\* the bytes a peer may put on the socket: recv_all hands the handler 1024
\* header bytes and then content_length content bytes of them
WireFrames ==
    LET sent == Message_serialize(PingRequest)
        plain == [sent EXCEPT !.header_data.checksum = NoChecksumField]
    IN {\* what Message.serialize of the client produces
        sent,
        \* the same with the checksum field left empty
        plain,
        \* a header field that is not utf-8
        [plain EXCEPT !.header_data.command = pack_s(<<BadByte>>, COMMAND_LEN)],
        \* a checksum field of another body
        [plain EXCEPT !.header_data.checksum = Take(hexdigest(<<"{">>), CHECKSUM_LEN)],
        \* a body that is not JSON
        [plain EXCEPT !.header_data.content_length = 1, !.content_data = <<"{">>],
        \* a body that is not utf-8
        [plain EXCEPT !.header_data.content_length = 1, !.content_data = <<BadByte>>]}

\* handle(): MessageHeader.deserialize or Message.deserialize raises.
\* InvalidMessageError is a FileHarborException: "except FileHarborException"
\* sends the error and the loop goes on; anything else: "except Exception"
\* sends the error and breaks. update_session_activity is not reached.
HandleUndecodable(c, wire) ==
    /\ conns[c].pc = "recv"
    /\ LET m == Message_deserialize(wire.header_data, wire.content_data)
       IN /\ ~m.ok
          /\ IF m.err = "InvalidMessageError"
             THEN Failed(c, CMD_DISCONNECT, STATUS_BAD_REQUEST, m.why, Reg, {})
             ELSE /\ Respond(c, CMD_DISCONNECT, STATUS_INTERNAL_ERROR, "Internal server error", {})
                  /\ conns' = [conns EXCEPT ![c].pc = "closing"]
                  /\ UNCHANGED <<regVars, fs, pathVars>>

NextFrames ==
    \/ \E cert \in Certs : AcceptConnection(1, cert)
    \/ Cleanup(1)
    \/ ConnectionLost(1)
    \/ \E lib \in HandshakeLibraries : HandleHandshake(1, lib)
    \/ HandlePing(1)
    \/ HandleDisconnect(1)
    \/ \E wire \in WireFrames : HandleUndecodable(1, wire)

SpecFrames == Init /\ [][NextFrames]_vars

\* C23: a frame that fails decoding is answered with status 500 and the
\* handler stops reading from the connection
C23_UndecodableClosed ==
    [][\A c \in Conns, wire \in WireFrames :
          HandleUndecodable(c, wire)
              => /\ last'.conn = c
                 /\ last'.status = STATUS_INTERNAL_ERROR
                 /\ conns'[c].pc = "closing"]_vars

\* ---------------------------------------------------------------------------
\* Specification of the client connection (client/connection.py)
\* ---------------------------------------------------------------------------
\* what the peer does with the TCP connection and the TLS handshake
TlsOutcomes == {"ok", "socket.timeout", "socket.error", "ssl.SSLError"}

\* what the peer answers to HANDSHAKE; session_id NoSession: none in the content
HandshakeAnswers ==
    [command : {CMD_HANDSHAKE, CMD_DISCONNECT},
     status : {STATUS_SUCCESS, STATUS_UNAUTHORIZED, STATUS_FORBIDDEN, STATUS_LOCKED},
     session_id : {NoSession, 1}]

\* Connection.__init__, and the peer it will meet
Connection_init(tls, answer) ==
    [pc |-> "init", socket |-> FALSE, ssl_socket |-> FALSE, session_id |-> NoSession,
     connected |-> FALSE, outcome |-> "none", sent |-> 0, tls |-> tls, answer |-> answer]

\* Connection.close
close(C) == [C EXCEPT !.connected = FALSE, !.session_id = NoSession,
                      !.ssl_socket = FALSE, !.socket = FALSE]

\* Connection.is_connected
is_connected(C) == C.connected /\ C.ssl_socket

\* send_message: "if not self.connected or not self.ssl_socket: raise"
CanSend(C) == C.connected /\ C.ssl_socket

\* _perform_handshake called by connect(): [raised, session_id, sent]
perform_handshake(C) ==
    IF ~CanSend(C)
    THEN [raised |-> "FHConnectionError: Not connected", session_id |-> C.session_id, sent |-> 0]
    ELSE IF C.answer.status # STATUS_SUCCESS
    THEN [raised |-> "ProtocolError", session_id |-> C.session_id, sent |-> 1]
    ELSE IF C.answer.command # CMD_HANDSHAKE
    THEN [raised |-> "AuthenticationError", session_id |-> C.session_id, sent |-> 1]
    ELSE IF C.answer.session_id = NoSession
    THEN [raised |-> "AuthenticationError", session_id |-> NoSession, sent |-> 1]
    ELSE [raised |-> "", session_id |-> C.answer.session_id, sent |-> 1]

InitConnect ==
    /\ conns = [c \in Conns |-> FreshHandler]
    /\ sessions = EmptyMap
    /\ library_locks = EmptyMap
    /\ file_locks = EmptyMap
    /\ fs = [p \in {OutsidePath} |-> <<0>>]
    /\ last = NoResponse
    /\ vp_in = NoInput
    /\ vp_out = NotRun
    /\ OthersIdle({"connection"})
    /\ \E tls \in TlsOutcomes, answer \in HandshakeAnswers :
           connection = Connection_init(tls, answer)

\* connect(), up to wrap_socket
connect_tls ==
    /\ connection.pc \in {"init", "failed", "closed"}
    /\ connection' =
           IF connection.tls = "ok"
           THEN [connection EXCEPT !.pc = "tls", !.socket = TRUE, !.ssl_socket = TRUE,
                                   !.outcome = "none"]
           ELSE \* the except clauses for these three do not call close()
                [connection EXCEPT !.pc = "failed", !.socket = TRUE,
                                   !.outcome = "FHConnectionError"]
    /\ UNCHANGED <<serverVars, vp_in, vp_out, download, frame, ops, retry, limiter, stream, shutdown, listing>>

\* connect(), from _perform_handshake to its return or its raise
connect_handshake ==
    /\ connection.pc = "tls"
    /\ LET r == perform_handshake(connection)
           C == [connection EXCEPT !.session_id = r.session_id, !.sent = @ + r.sent]
       IN connection' =
              IF r.raised = ""
              THEN [C EXCEPT !.pc = "returned", !.connected = TRUE, !.outcome = "returned"]
              ELSE \* "except Exception: self.close(); raise FHConnectionError"
                   [close(C) EXCEPT !.pc = "failed", !.outcome = "FHConnectionError"]
    /\ UNCHANGED <<serverVars, vp_in, vp_out, download, frame, ops, retry, limiter, stream, shutdown, listing>>

\* disconnect()
disconnect ==
    /\ connection.pc \in {"returned", "failed"}
    /\ connection' =
           IF ~connection.connected
           THEN [connection EXCEPT !.pc = "closed"]
           ELSE [close(connection) EXCEPT !.pc = "closed", !.sent = @ + 1]
    /\ UNCHANGED <<serverVars, vp_in, vp_out, download, frame, ops, retry, limiter, stream, shutdown, listing>>

NextConnect ==
    \/ connect_tls
    \/ connect_handshake
    \/ disconnect

SpecConnect == InitConnect /\ [][NextConnect]_vars

\* the peer completes TLS and answers HANDSHAKE with 200 and a session_id
GoodServer(C) ==
    /\ C.tls = "ok"
    /\ C.answer.command = CMD_HANDSHAKE
    /\ C.answer.status = STATUS_SUCCESS
    /\ C.answer.session_id # NoSession

\* C25: against such a peer connect() returns with is_connected() true and
\* session_id set; after disconnect() the client reports not connected
C25_ConnectReturnsConnected ==
    /\ (GoodServer(connection) /\ connection.pc \in {"returned", "failed"})
           => /\ connection.outcome = "returned"
              /\ is_connected(connection)
              /\ connection.session_id = connection.answer.session_id
    /\ connection.pc = "closed" => ~is_connected(connection)

\* ---------------------------------------------------------------------------
\* Specification of the retry wrappers (client/transfer_manager.py)
\* ---------------------------------------------------------------------------
\* largest max_retries followed
MaxRetries == 3

\* how one upload_file / download_file call ends: it returns, the checksum
\* of the transferred file does not match, the server answers with another
\* error, or the connection fails
AttemptResults == {"ok", "ChecksumMismatch", "ServerError", "ConnectionError"}

\* the exception a failed attempt raises in the wrapper: download_file raises
\* ChecksumMismatchError itself; upload_file learns of the mismatch from the
\* server's error response to PUT_COMPLETE, which receive_message raises as
\* ProtocolError
Raised(op, result) ==
    IF result = "ChecksumMismatch"
    THEN IF op = "download" THEN "ChecksumMismatchError" ELSE "ProtocolError"
    ELSE IF result = "ServerError" THEN "ProtocolError"
    ELSE "FHConnectionError"

\* the except clause that ends the loop: only download_with_retry has
\* "except ChecksumMismatchError: raise"
Reraised(op, exception) == op = "download" /\ exception = "ChecksumMismatchError"

\* upload_with_retry / download_with_retry is called
with_retry_init(op, max_retries) ==
    [pc |-> "loop", op |-> op, max_retries |-> max_retries, attempt |-> 0,
     resume |-> FALSE, failures |-> <<>>, outcome |-> "none"]

InitRetry ==
    /\ conns = [c \in Conns |-> FreshHandler]
    /\ sessions = EmptyMap
    /\ library_locks = EmptyMap
    /\ file_locks = EmptyMap
    /\ fs = [p \in {OutsidePath} |-> <<0>>]
    /\ last = NoResponse
    /\ vp_in = NoInput
    /\ vp_out = NotRun
    /\ OthersIdle({"retry"})
    /\ \E op \in {"upload", "download"}, max_retries \in 0..MaxRetries :
           retry = with_retry_init(op, max_retries)

\* "for attempt in range(max_retries)": the next upload_file / download_file
\* call with resume=True
with_retry_attempt ==
    /\ retry.pc = "loop"
    /\ retry.attempt < retry.max_retries
    /\ retry' = [retry EXCEPT !.pc = "running", !.resume = TRUE]
    /\ UNCHANGED <<serverVars, vp_in, vp_out, download, frame, connection, ops, limiter, stream, shutdown, listing>>

\* the call ends: "return", or one of the except clauses
with_retry_result(result) ==
    /\ retry.pc = "running"
    /\ retry' =
           IF result = "ok"
           THEN [retry EXCEPT !.pc = "done", !.outcome = "returned"]
           ELSE IF Reraised(retry.op, Raised(retry.op, result))
           THEN [retry EXCEPT !.pc = "done", !.failures = Append(@, result),
                              !.outcome = "ChecksumMismatchError"]
           ELSE [retry EXCEPT !.pc = "loop", !.failures = Append(@, result),
                              !.attempt = @ + 1]
    /\ UNCHANGED <<serverVars, vp_in, vp_out, download, frame, connection, ops, limiter, stream, shutdown, listing>>

\* the loop is over: "raise FileTransferError"
with_retry_exhausted ==
    /\ retry.pc = "loop"
    /\ retry.attempt >= retry.max_retries
    /\ retry' = [retry EXCEPT !.pc = "done", !.outcome = "FileTransferError"]
    /\ UNCHANGED <<serverVars, vp_in, vp_out, download, frame, connection, ops, limiter, stream, shutdown, listing>>

NextRetry ==
    \/ with_retry_attempt
    \/ \E result \in AttemptResults : with_retry_result(result)
    \/ with_retry_exhausted

SpecRetry == InitRetry /\ [][NextRetry]_vars

\* attempts started so far
Attempts(r) == Len(r.failures) + (IF r.pc = "running" \/ r.outcome = "returned" THEN 1 ELSE 0)

\* C24: the wrappers call the transfer with resume=true at most max_retries
\* times, stop at the first success, start no attempt after one that failed
\* with a checksum mismatch, and raise a transfer error once max_retries
\* attempts have failed
C24_RetryPolicy ==
    retry.pc # "none"
        => /\ Attempts(retry) <= retry.max_retries
           /\ retry.pc = "running" => retry.resume
           /\ retry.pc = "running"
                  => \A i \in DOMAIN retry.failures : retry.failures[i] # "ChecksumMismatch"
           /\ (retry.pc = "done" /\ Len(retry.failures) = retry.max_retries)
                  => retry.outcome \in {"FileTransferError", "ChecksumMismatchError"}
           /\ retry.outcome = "returned" => retry.pc = "done"

\* ---------------------------------------------------------------------------
\* Specification of the async client (client/async_client.py)
\* ---------------------------------------------------------------------------
\* Connection.connect() is taken by its contract here, it returns connected
\* or it raises; SpecConnect is about what it does.

\* coroutines awaited together on one client (asyncio.gather)
MaxTasks == 2
Tasks == 1..MaxTasks

\* request/response exchanges of one operation: ping has one; an upload of
\* one chunk has PUT_START, PUT_CHUNK and PUT_COMPLETE
Exchanges == [ping |-> 1, upload |-> 3]

IdleTask == [pc |-> "idle", op |-> "none", left |-> 0]

\* AsyncFileHarborClient.__init__
AsyncClient_init ==
    [connected |-> FALSE, tasks |-> [t \in Tasks |-> IdleTask],
     in_flight |-> {}]

InitAsync ==
    /\ conns = [c \in Conns |-> FreshHandler]
    /\ sessions = EmptyMap
    /\ library_locks = EmptyMap
    /\ file_locks = EmptyMap
    /\ fs = [p \in {OutsidePath} |-> <<0>>]
    /\ last = NoResponse
    /\ vp_in = NoInput
    /\ vp_out = NotRun
    /\ OthersIdle({"ops"})
    /\ ops = AsyncClient_init

\* connect_async: under self._lock, _sync_connect on an executor thread
connect_async(returns) ==
    /\ ~ops.connected
    /\ ops' = [ops EXCEPT !.connected = returns]
    /\ UNCHANGED <<serverVars, vp_in, vp_out, download, frame, connection, retry, limiter, stream, shutdown, listing>>

\* disconnect_async: under self._lock, Connection.disconnect; the
\* operations still running find the connection closed
disconnect_async ==
    /\ ops.connected
    /\ ops' = [ops EXCEPT !.connected = FALSE, !.in_flight = {},
                          !.tasks = [t \in Tasks |->
                                        IF ops.tasks[t].pc \in {"send", "recv"}
                                        THEN [ops.tasks[t] EXCEPT !.pc = "failed"]
                                        ELSE ops.tasks[t]]]
    /\ UNCHANGED <<serverVars, vp_in, vp_out, download, frame, connection, retry, limiter, stream, shutdown, listing>>

\* upload_async, ping_async, ...: _ensure_connected_async, then
\* run_in_executor(None, ...); self._lock is not taken
op_async(t, op) ==
    /\ ops.tasks[t].pc \in {"idle", "done", "failed"}
    /\ ops' = [ops EXCEPT !.tasks[t] =
                   IF ops.connected
                   THEN [pc |-> "send", op |-> op, left |-> Exchanges[op]]
                   ELSE [pc |-> "failed", op |-> op, left |-> 0]]
    /\ UNCHANGED <<serverVars, vp_in, vp_out, download, frame, connection, retry, limiter, stream, shutdown, listing>>

\* the executor thread of t: Connection.send_message
op_send(t) ==
    /\ ops.tasks[t].pc = "send"
    /\ ops' = [ops EXCEPT !.tasks[t].pc = "recv", !.in_flight = @ \cup {t}]
    /\ UNCHANGED <<serverVars, vp_in, vp_out, download, frame, connection, retry, limiter, stream, shutdown, listing>>

\* the executor thread of t: Connection.receive_message returns
op_receive(t) ==
    /\ ops.tasks[t].pc = "recv"
    /\ ops' = [ops EXCEPT !.in_flight = @ \ {t},
                          !.tasks[t].left = @ - 1,
                          !.tasks[t].pc = IF ops.tasks[t].left = 1 THEN "done" ELSE "send"]
    /\ UNCHANGED <<serverVars, vp_in, vp_out, download, frame, connection, retry, limiter, stream, shutdown, listing>>

NextAsync ==
    \/ \E returns \in BOOLEAN : connect_async(returns)
    \/ disconnect_async
    \/ \E t \in Tasks, op \in DOMAIN Exchanges : op_async(t, op)
    \/ \E t \in Tasks : op_send(t)
    \/ \E t \in Tasks : op_receive(t)

SpecAsync == InitAsync /\ [][NextAsync]_vars

AbsA == pathjoin(RootL1, FileA)

\* C33: a PUT_START for FileA is answered 423 exactly when the file lock of
\* its path is held by a session other than the requesting one; a lock held
\* by the requesting session itself does not make it Locked
C33_LockedOnlyByOthers ==
    [][\A c \in Conns, size \in 0..MaxFileLen, sum \in Checksums, resume \in BOOLEAN :
          (conns[c].authenticated /\ HandlePutStart(c, FileA, size, sum, resume))
              => ((Responded(c) /\ last'.status = STATUS_LOCKED)
                      <=> (AbsA \in DOMAIN file_locks /\ file_locks[AbsA] # conns[c].session_id))]_vars

\* C34: every file lock names a session of the table that has the path among
\* its locked_files, and every path in a session's locked_files is locked by
\* that session
C34_FileLocksMatchSessions ==
    /\ \A p \in DOMAIN file_locks :
          /\ file_locks[p] \in DOMAIN sessions
          /\ p \in sessions[file_locks[p]].locked_files
    /\ \A s \in DOMAIN sessions : \A p \in sessions[s].locked_files :
          p \in DOMAIN file_locks /\ file_locks[p] = s

\* C35, on the one connection of SpecAuth: the session table holds at most
\* one session (the connection's), and none once the handler has terminated
C35_OneSessionPerConnection ==
    /\ Cardinality(DOMAIN sessions) <= 1
    /\ conns[1].pc = "free" => sessions = EmptyMap

\* C36: a PUT_COMPLETE for FileA changes a file only if the requesting
\* session has a TransferState for the path and holds its file lock
C36_CompleteNeedsTransfer ==
    [][\A c \in Conns, t \in {TempA1, OutsidePath}, sum \in Checksums :
          (conns[c].authenticated /\ HandlePutComplete(c, FileA, t, sum) /\ fs' # fs)
              => /\ has_transfer_state(Reg, conns[c].session_id, AbsA)
                 /\ AbsA \in DOMAIN file_locks
                 /\ file_locks[AbsA] = conns[c].session_id]_vars

\* C37: a PUT_START answered with an error status leaves the file locks and
\* every session's locked_files and TransferStates as they were
C37_FailedPutStartKeepsRegistry ==
    [][\A c \in Conns :
          (Responded(c) /\ last'.cmd = CMD_PUT_START /\ last'.status # STATUS_SUCCESS)
              => /\ file_locks' = file_locks
                 /\ \A s \in DOMAIN sessions :
                       /\ s \in DOMAIN sessions'
                       /\ sessions'[s].locked_files = sessions[s].locked_files
                       /\ sessions'[s].active_transfers = sessions[s].active_transfers]_vars

\* C38: when PUT_START succeeds with resume_offset 0 (the TransferState it
\* records starts at bytes_transferred 0), the temp file of the path is empty
C38_OffsetZeroEmptyTemp ==
    [][\A c \in Conns :
          LET path == conns[c].pending.abs_path
              sid == conns[c].session_id
          IN (/\ PutStartLocked(c)
              /\ last'.status = STATUS_SUCCESS
              /\ sessions'[sid].active_transfers[path].bytes_transferred = 0)
                 => fs'[TempPathOf(path)] = <<>>]_vars

\* ------------------------------------------------------------------------
\* Specification of the validator alone: any client string against any root
\* ------------------------------------------------------------------------
PathAlphabet == {"/", ".", "a", "\\"}

RECURSIVE StringsUpTo(_)
StringsUpTo(n) ==
    IF n = 0 THEN {<<>>}
    ELSE LET shorter == StringsUpTo(n - 1)
         IN shorter \cup {Append(s, ch) : s \in {t \in shorter : Len(t) = n - 1}, ch \in PathAlphabet}

PathRoots == {<<"/">>, <<"/", "a">>, <<"/", "a", "/">>, <<"/", "a", "/", "a">>}

InitPath ==
    /\ conns = [c \in Conns |-> FreshHandler]
    /\ sessions = EmptyMap
    /\ library_locks = EmptyMap
    /\ file_locks = EmptyMap
    /\ fs = [p \in {OutsidePath} |-> <<0>>]
    /\ last = NoResponse
    /\ vp_in \in [filepath : StringsUpTo(MaxPathLen), base_path : PathRoots]
    /\ vp_out = NotRun
    /\ OthersIdle({})

ValidatePath ==
    /\ vp_out = NotRun
    /\ vp_out' = validate_path(vp_in.filepath, vp_in.base_path)
    /\ UNCHANGED <<vp_in, clientVars, serverVars>>

NextPath == ValidatePath

SpecPath == InitPath /\ [][NextPath]_vars

\* ------------------------------------------------------------------------
\* Properties of validate_path
\* ------------------------------------------------------------------------
HasDotDot(p) == \E i \in 1..Len(split(p)) : split(p)[i] = <<".", ".">>

MaxRequests == 3
HeaderUnits == 2
MaxTail == 2

StreamCmds == {CMD_HANDSHAKE, CMD_PUT_START, CMD_PUT_CHUNK, CMD_PUT_COMPLETE,
               CMD_PING, CMD_UNKNOWN}

\* what a collaborator of the handler does with the request
StreamFaults == {"none", "resolve_path", "handler"}

Unit(i, part, cmd, chunk_size) ==
    [req |-> i, part |-> part, cmd |-> cmd, chunk_size |-> chunk_size]

\* the bytes of request i on the wire: header, body and, for PUT_CHUNK, the
\* chunk (upload_file: send_message(chunk_msg), then send_all(chunk_data))
RequestBytes(i, cmd, chunk_size) ==
    [k \in 1..HeaderUnits |-> Unit(i, "header", cmd, chunk_size)]
        \o <<Unit(i, "body", cmd, chunk_size)>>
        \o (IF cmd = CMD_PUT_CHUNK
            THEN [k \in 1..chunk_size |-> Unit(i, "tail", cmd, chunk_size)]
            ELSE <<>>)

\* header_data is the header of one request of the client
IsRequestStart(header_data) ==
    /\ Len(header_data) = HeaderUnits
    /\ \A k \in 1..HeaderUnits :
           header_data[k].part = "header" /\ header_data[k].req = header_data[1].req

InitStream ==
    /\ conns = [c \in Conns |-> FreshHandler]
    /\ sessions = EmptyMap
    /\ library_locks = EmptyMap
    /\ file_locks = EmptyMap
    /\ fs = [p \in {OutsidePath} |-> <<0>>]
    /\ last = NoResponse
    /\ vp_in = NoInput
    /\ vp_out = NotRun
    /\ OthersIdle({"stream"})
    /\ stream = [pc |-> "loop", wire |-> <<>>, awaiting |-> FALSE,
                 authenticated |-> FALSE, transfer |-> FALSE,
                 sent |-> 0, answered |-> 0, header |-> <<>>, status |-> 0]

\* the client writes its next request once the previous one was answered
\* (send_message ... receive_message)
stream_send(cmd, chunk_size) ==
    /\ stream.pc = "loop"
    /\ ~stream.awaiting
    /\ stream.sent < MaxRequests
    /\ stream' = [stream EXCEPT
           !.wire = @ \o RequestBytes(stream.sent + 1, cmd, chunk_size),
           !.sent = @ + 1,
           !.awaiting = TRUE]
    /\ UNCHANGED <<serverVars, vp_in, vp_out, download, frame, connection, ops, retry, limiter, shutdown, listing>>

\* _send_message / _send_error: one response goes out
stream_respond(s, status) ==
    [s EXCEPT !.answered = @ + 1, !.status = status, !.awaiting = FALSE]

\* _handle_put_chunk on a stream whose unread bytes are `rest`
stream_put_chunk(s, rest, chunk_size, fault) ==
    IF fault = "resolve_path"
    THEN stream_respond([s EXCEPT !.wire = rest], STATUS_INTERNAL_ERROR)
    ELSE IF ~s.transfer
    THEN stream_respond([s EXCEPT !.wire = rest], STATUS_BAD_REQUEST)
    ELSE \* chunk_data = recv_all(self.socket, chunk_size)
         LET after == SubSeq(rest, chunk_size + 1, Len(rest))
         IN  IF fault = "handler"
             THEN stream_respond([s EXCEPT !.wire = after], STATUS_INTERNAL_ERROR)
             ELSE stream_respond([s EXCEPT !.wire = after], STATUS_SUCCESS)

\* _process_message for a request that was read whole
stream_process_message(s, rest, cmd, chunk_size, fault) ==
    IF cmd = CMD_HANDSHAKE
    THEN IF fault = "none"
         THEN stream_respond([s EXCEPT !.wire = rest, !.authenticated = TRUE], STATUS_SUCCESS)
         ELSE [stream_respond([s EXCEPT !.wire = rest], STATUS_UNAUTHORIZED) EXCEPT !.pc = "closed"]
    ELSE IF ~s.authenticated
    THEN stream_respond([s EXCEPT !.wire = rest], STATUS_UNAUTHORIZED)
    ELSE IF cmd = CMD_PUT_START
    THEN IF fault = "none"
         THEN stream_respond([s EXCEPT !.wire = rest, !.transfer = TRUE], STATUS_SUCCESS)
         ELSE stream_respond([s EXCEPT !.wire = rest], STATUS_INTERNAL_ERROR)
    ELSE IF cmd = CMD_PUT_CHUNK
    THEN stream_put_chunk(s, rest, chunk_size, fault)
    ELSE IF cmd = CMD_PUT_COMPLETE
    THEN IF fault = "none"
         THEN stream_respond([s EXCEPT !.wire = rest, !.transfer = FALSE], STATUS_SUCCESS)
         ELSE stream_respond([s EXCEPT !.wire = rest], STATUS_INTERNAL_ERROR)
    ELSE IF cmd = CMD_PING
    THEN stream_respond([s EXCEPT !.wire = rest], STATUS_SUCCESS)
    ELSE stream_respond([s EXCEPT !.wire = rest], STATUS_BAD_REQUEST)

\* one turn of the loop in handle(): recv_all(MESSAGE_HEADER_SIZE), the
\* header's content_length bytes, then _process_message
stream_handle(fault) ==
    /\ stream.pc = "loop"
    /\ Len(stream.wire) >= HeaderUnits
    /\ LET header_data == SubSeq(stream.wire, 1, HeaderUnits)
           s == [stream EXCEPT !.header = header_data]
       IN  /\ IsRequestStart(header_data)
           /\ stream' = stream_process_message(
                  s, SubSeq(stream.wire, HeaderUnits + 2, Len(stream.wire)),
                  header_data[1].cmd, header_data[1].chunk_size, fault)
    /\ UNCHANGED <<serverVars, vp_in, vp_out, download, frame, connection, ops, retry, limiter, shutdown, listing>>

\* the same turn when the bytes read as the header are not a header the
\* client wrote: what deserialize and _process_message make of them depends
\* on the bytes; every outcome sends a response (handle()'s two except
\* clauses, or a handler's answer), and "except Exception" leaves the loop
stream_handle_other(status) ==
    /\ stream.pc = "loop"
    /\ Len(stream.wire) >= HeaderUnits
    /\ LET header_data == SubSeq(stream.wire, 1, HeaderUnits)
           s == [stream EXCEPT !.header = header_data,
                               !.wire = SubSeq(@, HeaderUnits + 1, Len(@))]
       IN  /\ ~IsRequestStart(header_data)
           /\ stream' = [stream_respond(s, status) EXCEPT
                  !.pc = IF status = STATUS_INTERNAL_ERROR THEN "closed" ELSE "loop"]
    /\ UNCHANGED <<serverVars, vp_in, vp_out, download, frame, connection, ops, retry, limiter, shutdown, listing>>

NextStream ==
    \/ \E cmd \in StreamCmds, chunk_size \in 1..MaxTail : stream_send(cmd, chunk_size)
    \/ \E fault \in StreamFaults : stream_handle(fault)
    \/ \E status \in {STATUS_BAD_REQUEST, STATUS_UNAUTHORIZED, STATUS_INTERNAL_ERROR} :
           stream_handle_other(status)

SpecStream == InitStream /\ [][NextStream]_vars

\* C32: on every connection the server reads each request whole, the chunk
\* of a PUT_CHUNK included, and answers it once, before it takes further
\* bytes for a header: whatever the loop reads as a header is the header of
\* one request of the client, and it has sent no more responses than the
\* client has sent requests.
C32_HeadersAreRequestStarts ==
    stream.pc # "none" =>
        /\ stream.header = <<>> \/ IsRequestStart(stream.header)
        /\ stream.answered <= stream.sent

STATUS_INSUFFICIENT_STORAGE == 507

\* the statuses a handler answers one rejected command with
PerCommandErrors == {STATUS_BAD_REQUEST, STATUS_NOT_FOUND, STATUS_CONFLICT,
                     STATUS_LOCKED, STATUS_INSUFFICIENT_STORAGE}

\* C39: a request rejected with a per-command error status (400, 404, 409,
\* 423, 507), an unknown command included, leaves the connection open, and
\* the next request on that connection is processed normally: after the
\* answer the loop is still running and nothing of the rejected request is
\* left unread in front of the client's next request.
C39_RejectedRequestLeavesStreamClean ==
    [][\A fault \in StreamFaults :
          (stream_handle(fault) /\ stream'.status \in PerCommandErrors)
              => stream'.pc = "loop" /\ stream'.wire = <<>>]_vars

\* ------------------------------------------------------------------------
\* FileHarborServer.start / stop with its threads: the accept loop, the
\* pool's workers running ConnectionHandler.handle, and the session
\* manager's cleanup thread.  stop() runs in steps beside them.
\* ------------------------------------------------------------------------
MaxWorkers == 2
MaxQueued == 1

Workers == 1..MaxWorkers

\* start(): socket bound, pool created, session_manager.start(), running
InitShutdown ==
    /\ conns = [c \in Conns |-> FreshHandler]
    /\ sessions = EmptyMap
    /\ library_locks = EmptyMap
    /\ file_locks = EmptyMap
    /\ fs = [p \in {OutsidePath} |-> <<0>>]
    /\ last = NoResponse
    /\ vp_in = NoInput
    /\ vp_out = NotRun
    /\ OthersIdle({"shutdown"})
    /\ shutdown = [pc |-> "serving", running |-> TRUE, socket_open |-> TRUE,
                   accept |-> "accept", sm_running |-> TRUE, cleanup_thread |-> "sleep",
                   pool_open |-> TRUE, workers |-> [w \in Workers |-> "idle"],
                   queued |-> 0]

ShutdownStep(s) ==
    /\ shutdown' = s
    /\ UNCHANGED <<serverVars, vp_in, vp_out, download, frame, connection, ops, retry, limiter, stream, listing>>

\* _accept_connections: server_socket.accept() and wrap_socket return
accept_connection ==
    /\ shutdown.accept = "accept"
    /\ shutdown.socket_open
    /\ ShutdownStep([shutdown EXCEPT !.accept = "submit"])

\* _accept_connections: accept() raises OSError on the closed socket, "break"
accept_oserror ==
    /\ shutdown.accept = "accept"
    /\ ~shutdown.socket_open
    /\ ShutdownStep([shutdown EXCEPT !.accept = "exited"])

\* _accept_connections: thread_pool.submit(self._handle_client, ...), then
\* "while self.running"; submit after shutdown raises, "except Exception"
accept_submit ==
    /\ shutdown.accept = "submit"
    /\ shutdown.pool_open => shutdown.queued < MaxQueued
    /\ ShutdownStep([shutdown EXCEPT
           !.queued = IF shutdown.pool_open THEN @ + 1 ELSE @,
           !.accept = IF shutdown.running THEN "accept" ELSE "exited"])

\* a worker of the pool takes a queued _handle_client call; the calls queued
\* before shutdown still run (cancel_futures=False)
handle_client_start(w) ==
    /\ shutdown.workers[w] = "idle"
    /\ shutdown.queued > 0
    /\ ShutdownStep([shutdown EXCEPT !.workers[w] = "handling", !.queued = @ - 1])

\* handler.handle() returns: the client disconnected or the loop broke
handle_client_return(w) ==
    /\ shutdown.workers[w] = "handling"
    /\ ShutdownStep([shutdown EXCEPT !.workers[w] = "idle"])

\* _cleanup_loop: time.sleep(SESSION_CLEANUP_INTERVAL) is over
cleanup_loop_wake ==
    /\ shutdown.cleanup_thread = "sleep"
    /\ ShutdownStep([shutdown EXCEPT !.cleanup_thread = "scan"])

\* _cleanup_loop: cleanup_idle_sessions(), then "while self.running"
cleanup_loop_scan ==
    /\ shutdown.cleanup_thread = "scan"
    /\ ShutdownStep([shutdown EXCEPT
           !.cleanup_thread = IF shutdown.sm_running THEN "sleep" ELSE "exited"])

\* stop(): "if not self.running: return", "self.running = False"
stop_begin ==
    /\ shutdown.pc = "serving"
    /\ shutdown.running
    /\ ShutdownStep([shutdown EXCEPT !.running = FALSE, !.pc = "close"])

\* stop(): self.server_socket.close()
stop_close ==
    /\ shutdown.pc = "close"
    /\ ShutdownStep([shutdown EXCEPT !.socket_open = FALSE, !.pc = "session_manager_stop"])

\* SessionManager.stop(): self.running = False
session_manager_stop ==
    /\ shutdown.pc = "session_manager_stop"
    /\ ShutdownStep([shutdown EXCEPT !.sm_running = FALSE, !.pc = "join"])

\* SessionManager.stop(): cleanup_thread.join(timeout=5.0) returns, because
\* the thread ended or because the timeout passed
session_manager_join ==
    /\ shutdown.pc = "join"
    /\ ShutdownStep([shutdown EXCEPT !.pc = "pool_shutdown"])

\* stop(): thread_pool.shutdown(wait=True, cancel_futures=False) closes the
\* pool to new calls
pool_shutdown ==
    /\ shutdown.pc = "pool_shutdown"
    /\ ShutdownStep([shutdown EXCEPT !.pool_open = FALSE, !.pc = "pool_wait"])

\* shutdown(wait=True) returns when every queued call has run and every
\* worker has ended; then stop() returns
pool_wait ==
    /\ shutdown.pc = "pool_wait"
    /\ shutdown.queued = 0
    /\ \A w \in Workers : shutdown.workers[w] = "idle"
    /\ ShutdownStep([shutdown EXCEPT !.pc = "returned"])

StopSteps ==
    \/ stop_close
    \/ session_manager_stop
    \/ session_manager_join
    \/ pool_shutdown
    \/ pool_wait

ThreadSteps ==
    \/ accept_oserror
    \/ accept_submit
    \/ \E w \in Workers : handle_client_start(w)
    \/ cleanup_loop_wake
    \/ cleanup_loop_scan

NextShutdown ==
    \/ accept_connection
    \/ \E w \in Workers : handle_client_return(w)
    \/ stop_begin
    \/ StopSteps
    \/ ThreadSteps

SpecShutdown == InitShutdown /\ [][NextShutdown]_vars

\* Every thread of the server keeps running, and so does stop() once it was
\* called.  Nothing makes a client connect or disconnect, so a new
\* connection and the return of handler.handle() are not fair.
SpecShutdownFair ==
    /\ SpecShutdown
    /\ WF_vars(StopSteps)
    /\ WF_vars(accept_oserror)
    /\ WF_vars(accept_submit)
    /\ \A w \in Workers : WF_vars(handle_client_start(w))
    /\ WF_vars(cleanup_loop_wake)
    /\ WF_vars(cleanup_loop_scan)

\* C31: graceful shutdown stops accepting, stops the idle reaper, and then
\* returns after a bounded wait even if a connection handler never finishes:
\* once stop() has begun, it returns.
C31_StopReturns ==
    (shutdown.pc \notin {"none", "serving"}) ~> (shutdown.pc = "returned")

\* ------------------------------------------------------------------------
\* LIST, MKDIR and RMDIR of one authenticated handler attached to library
\* L1, over the directories of that library (the library holds no files, as
\* in the integration test's fresh library)
\* ------------------------------------------------------------------------
CMD_LIST == "LIST"
CMD_MKDIR == "MKDIR"
CMD_RMDIR == "RMDIR"

\* "test_dir" and a second name
DirT == <<"t">>
DirU == <<"u">>
\* dirpath values of the requests: "/", "t", "/t", "u", "t/u", "u/t", ".."
ListPaths == {<<"/">>, DirT, <<"/">> \o DirT, DirU, DirT \o <<"/">> \o DirU,
              DirU \o <<"/">> \o DirT, <<".", ".">>}

\* Path.parent
dirname(p) ==
    LET comps == split(p)
        head == JoinComps(SubSeq(comps, 1, Len(comps) - 1))
    IN IF head = <<>> THEN <<sep>> ELSE head

\* Path.relative_to(base_path) of a path below base_path
relative_to(p, base_path) == SubSeq(p, Len(base_path) + 2, Len(p))

\* Path.exists() / is_dir() in a tree that holds directories only
dir_exists(dirs, p) == p \in Dirs \/ p \in dirs

RECURSIVE makedirs(_, _)
\* ensure_directory_exists: os.makedirs(dirpath, exist_ok=True)
makedirs(dirs, p) ==
    IF dir_exists(dirs, p) THEN dirs ELSE makedirs(dirs, dirname(p)) \cup {p}

\* FileOperationHandler.create_directory
create_directory(dirs, dirpath) ==
    IF dir_exists(dirs, dirpath)
    THEN [ok |-> FALSE, err |-> "FileExistsError", dirs |-> dirs]
    ELSE [ok |-> TRUE, err |-> "", dirs |-> makedirs(dirs, dirpath)]

\* FileOperationHandler.remove_directory
remove_directory(dirs, dirpath, recursive) ==
    IF ~dir_exists(dirs, dirpath)
    THEN [ok |-> FALSE, err |-> "FileNotFoundError", dirs |-> dirs]
    ELSE IF (\E d \in dirs : d # dirpath /\ Below(d, dirpath)) /\ ~recursive
    THEN [ok |-> FALSE, err |-> "DirectoryNotEmptyError", dirs |-> dirs]
    ELSE [ok |-> TRUE, err |-> "", dirs |-> {d \in dirs : ~Below(d, dirpath)}]

\* FileOperationHandler.list_directory: iterdir() or rglob('*'), each entry
\* by its path relative to the directory listed
list_directory(dirs, dirpath, recursive) ==
    IF ~dir_exists(dirs, dirpath)
    THEN [ok |-> FALSE, err |-> "FileNotFoundError", files |-> {}]
    ELSE [ok |-> TRUE, err |-> "",
          files |-> {relative_to(d, dirpath) :
                        d \in {e \in dirs : /\ e # dirpath
                                            /\ Below(e, dirpath)
                                            /\ recursive \/ dirname(e) = dirpath}}]

InitList ==
    /\ conns = [c \in Conns |-> FreshHandler]
    /\ sessions = EmptyMap
    /\ library_locks = EmptyMap
    /\ file_locks = EmptyMap
    /\ fs = [p \in {OutsidePath} |-> <<0>>]
    /\ last = NoResponse
    /\ vp_in = NoInput
    /\ vp_out = NotRun
    /\ OthersIdle({"listing"})
    /\ listing = [pc |-> "session", library_id |-> L1, dirs |-> {},
                  cmd |-> "none", dirpath |-> <<>>, status |-> 0, err |-> "",
                  files |-> {}]

\* the response of a handler, and the directories after it
ListingStep(cmd, dirpath, status, err, files, dirs) ==
    /\ listing' = [listing EXCEPT !.cmd = cmd, !.dirpath = dirpath, !.status = status,
                                  !.err = err, !.files = files, !.dirs = dirs]
    /\ UNCHANGED <<serverVars, vp_in, vp_out, download, frame, connection, ops, retry, limiter, stream, shutdown>>

\* _handle_list
HandleList(dirpath, recursive) ==
    /\ listing.pc = "session"
    /\ LET abs_path == resolve_path(listing.library_id, dirpath)
           files == list_directory(listing.dirs, abs_path.path, recursive)
       IN  IF ~abs_path.ok
           THEN ListingStep(CMD_LIST, dirpath, STATUS_INTERNAL_ERROR, abs_path.err, {}, listing.dirs)
           ELSE IF ~files.ok
           THEN ListingStep(CMD_LIST, dirpath, STATUS_INTERNAL_ERROR, files.err, {}, listing.dirs)
           ELSE ListingStep(CMD_LIST, dirpath, STATUS_SUCCESS, "", files.files, listing.dirs)

\* _handle_mkdir
HandleMkdir(dirpath) ==
    /\ listing.pc = "session"
    /\ LET abs_path == resolve_path(listing.library_id, dirpath)
           made == create_directory(listing.dirs, abs_path.path)
       IN  IF ~abs_path.ok
           THEN ListingStep(CMD_MKDIR, dirpath, STATUS_INTERNAL_ERROR, abs_path.err, {}, listing.dirs)
           ELSE IF ~made.ok
           THEN ListingStep(CMD_MKDIR, dirpath, STATUS_INTERNAL_ERROR, made.err, {}, listing.dirs)
           ELSE ListingStep(CMD_MKDIR, dirpath, STATUS_SUCCESS, "", {}, made.dirs)

\* _handle_rmdir
HandleRmdir(dirpath, recursive) ==
    /\ listing.pc = "session"
    /\ LET abs_path == resolve_path(listing.library_id, dirpath)
           removed == remove_directory(listing.dirs, abs_path.path, recursive)
       IN  IF ~abs_path.ok
           THEN ListingStep(CMD_RMDIR, dirpath, STATUS_INTERNAL_ERROR, abs_path.err, {}, listing.dirs)
           ELSE IF ~removed.ok
           THEN ListingStep(CMD_RMDIR, dirpath, STATUS_INTERNAL_ERROR, removed.err, {}, listing.dirs)
           ELSE ListingStep(CMD_RMDIR, dirpath, STATUS_SUCCESS, "", {}, removed.dirs)

NextList ==
    \/ \E dirpath \in ListPaths, recursive \in BOOLEAN : HandleList(dirpath, recursive)
    \/ \E dirpath \in ListPaths : HandleMkdir(dirpath)
    \/ \E dirpath \in ListPaths, recursive \in BOOLEAN : HandleRmdir(dirpath, recursive)

SpecList == InitList /\ [][NextList]_vars

\* C40: LIST with dirpath "/" resolves to the library root and returns the
\* root's entries: it is answered 200 with exactly the directories that lie
\* directly in the root, so after MKDIR "t" the answer contains "t".
C40_ListRootReturnsEntries ==
    [][HandleList(<<"/">>, FALSE)
          => /\ listing'.status = STATUS_SUCCESS
             /\ listing'.files = {relative_to(d, RootL1) : d \in {e \in listing.dirs : dirname(e) = RootL1}}
             /\ (pathjoin(RootL1, DirT) \in listing.dirs => DirT \in listing'.files)]_vars

====
